---- MODULE Spec2Model ----
(***************************************************************************)
(* CodeWiki dependency analysis: the call-graph orchestrator               *)
(* (CallGraphAnalyzer), the JavaScript analyzer's node and edge            *)
(* extraction, the dependency parser (DependencyParser), leaf selection    *)
(* (DependencyGraphBuilder) and the repository scanner (RepoAnalyzer).     *)
(*                                                                         *)
(* A dotted string ("a.f") is held as the sequence of its '.'-separated    *)
(* segments (<<"a", "f">>): f"{m}.{n}" is m \o <<n>>, "." in s is          *)
(* Len(s) > 1 and s.split(".")[-1] is the last segment.  Identifiers and   *)
(* module paths contain no '.' inside a segment.                           *)
(***************************************************************************)
EXTENDS Naturals, Integers, Sequences, FiniteSets, TLC

VARIABLES
    pc,                  \* position in the pipeline
    code_files,          \* value returned by extract_code_files
    supported_files,     \* argument of analyze_code_files
    file_idx,            \* loop index of analyze_code_files (next file)
    functions,           \* CallGraphAnalyzer.functions, in dict order
    call_relationships,  \* CallGraphAnalyzer.call_relationships
    files_analyzed,      \* local counter of analyze_code_files
    runs,                \* calls of analyze_code_files on this instance
    contrib,             \* per analyzed file: what it merged, whether it failed
    merged,              \* the edge list as merged, before resolution
    resolved_rels,       \* the edge list after resolution, before deduplication
    result,              \* value returned by analyze_code_files
    components           \* DependencyParser.components, in dict order

cgVars == <<pc, code_files, supported_files, file_idx, functions, call_relationships,
            files_analyzed, runs, contrib, merged, resolved_rels, result, components>>

VARIABLES
    leaf_pc,             \* position in build_dependency_graph
    graph_components,    \* components returned by parse_repository: id -> component_type
    leaf_nodes,          \* value returned by get_leaf_nodes
    keep_leaf_nodes      \* second value returned by build_dependency_graph

leafVars == <<leaf_pc, graph_components, leaf_nodes, keep_leaf_nodes>>

VARIABLES
    tree_pc,             \* position in the repository scan
    repo,                \* the root directory on disk
    has_is_relative_to,  \* whether PurePath has is_relative_to
    include_arg,         \* include_patterns argument of RepoAnalyzer
    exclude_arg,         \* exclude_patterns argument of RepoAnalyzer
    include_patterns,    \* RepoAnalyzer.include_patterns
    exclude_patterns,    \* RepoAnalyzer.exclude_patterns
    file_tree,           \* value returned by _build_file_tree
    summary,             \* "summary" of analyze_repository_structure
    iterdir_order,       \* the order in which the OS lists a directory now
    prev_tree,           \* value returned by the previous _build_file_tree
    scan_orders          \* per call of analyze_repository_structure: the listing order

treeVars == <<tree_pc, repo, has_is_relative_to, include_arg, exclude_arg,
              include_patterns, exclude_patterns, file_tree, summary,
              iterdir_order, prev_tree, scan_orders>>

\* ------------------------------------------- further subsystems
VARIABLES
    disp_pc,             \* position in the routing of a file tree
    disp_tree,           \* the file entries of the file tree
    disp_code_files,     \* value returned by extract_code_files
    disp_routed          \* per supported file: the analyzer _analyze_code_file calls

dispatchVars == <<disp_pc, disp_tree, disp_code_files, disp_routed>>

VARIABLES
    gm_pc,               \* position in the calls of get_model
    gm_model,            \* argument of get_model
    gm_result,           \* value returned by get_model(model)
    gm_again             \* value returned by get_model on that value

modelVars == <<gm_pc, gm_model, gm_result, gm_again>>

VARIABLES
    ed_files,            \* the docs directory: per path the lines of the file, None when absent
    ed_registry,         \* ctx.deps.registry, shared by the tool calls
    ed_call,             \* the last call of str_replace_editor and its outcome
    ed_prev_call         \* the call before it

editorVars == <<ed_files, ed_registry, ed_call, ed_prev_call>>

VARIABLES
    doc_pc,              \* position in generate_module_documentation
    first_module_tree,   \* first_module_tree.json as loaded
    module_tree,         \* module_tree.json as loaded
    processing_order,    \* value returned by get_processing_order
    doc_idx,             \* index of the next entry of processing_order
    module_key,          \* local variable module_key, Unbound before its first assignment
    processed_modules,   \* set of module keys processed
    doc_attempts         \* per loop iteration: the module path and what happened

docsVars == <<doc_pc, first_module_tree, module_tree, processing_order, doc_idx, module_key, processed_modules, doc_attempts>>

VARIABLES
    running,             \* BackgroundWorker.running
    processing_queue,    \* BackgroundWorker.processing_queue, oldest first
    job_status,          \* BackgroundWorker.job_status: job id -> JobStatus
    loops,               \* the threads created by start(), each with its position in _worker_loop
    ever_stopped         \* whether stop() has been called

workerVars == <<running, processing_queue, job_status, loops, ever_stopped>>

VARIABLES
    sub_pc,              \* position in generate_sub_module_documentation
    deps,                \* ctx.deps: path_to_current_module, current_depth, current_module_name
    deps_module_tree,    \* ctx.deps.module_tree
    sub_frames,          \* the calls of generate_sub_module_documentation in progress, innermost last
    sub_last             \* the call that finished last: deps at its entry and at its end

subModuleVars == <<sub_pc, deps, deps_module_tree, sub_frames, sub_last>>

VARIABLES
    cfg_pc,              \* position in the round trip of a Configuration
    config,              \* the Configuration c (ConfigManager._config of the saving manager)
    config_data,         \* the dict made from it: to_dict(), or the content of the config file
    loaded_config        \* the Configuration made by from_dict

configVars == <<cfg_pc, config, config_data, loaded_config>>

extVars == <<dispatchVars, modelVars, editorVars, docsVars, workerVars, subModuleVars, configVars>>

coreVars == <<cgVars, leafVars, treeVars>>

exceptDispatchVars == <<coreVars, modelVars, editorVars, docsVars, workerVars, subModuleVars, configVars>>

exceptModelVars == <<coreVars, dispatchVars, editorVars, docsVars, workerVars, subModuleVars, configVars>>

exceptEditorVars == <<coreVars, dispatchVars, modelVars, docsVars, workerVars, subModuleVars, configVars>>

exceptDocsVars == <<coreVars, dispatchVars, modelVars, editorVars, workerVars, subModuleVars, configVars>>

exceptWorkerVars == <<coreVars, dispatchVars, modelVars, editorVars, docsVars, subModuleVars, configVars>>

exceptSubModuleVars == <<coreVars, dispatchVars, modelVars, editorVars, docsVars, workerVars, configVars>>

exceptConfigVars == <<coreVars, dispatchVars, modelVars, editorVars, docsVars, workerVars, subModuleVars>>

vars == <<cgVars, leafVars, treeVars, extVars>>

\* ------------------------------------------------------------------ bounds
MaxFiles == 2
MaxRuns == 2
MaxLeaves == 2
MaxEntries == 3
MaxClashFiles == 3
MaxRescanEntries == 2
MaxTreeFiles == 2
MaxModelLen == 4
MaxLines == 2
MaxModules == 3
MaxJobs == 2
MaxLoops == 2
MaxSubModules == 2
MaxDepth == 2

\* ----------------------------------------------------------------- helpers
Last(s) == s[Len(s)]

Range(s) == {s[k] : k \in 1..Len(s)}

RECURSIVE Flatten(_)
Flatten(ss) == IF ss = <<>> THEN <<>> ELSE Head(ss) \o Flatten(Tail(ss))

\* sum(s)
RECURSIVE SumSeq(_)
SumSeq(s) == IF s = <<>> THEN 0 ELSE Head(s) + SumSeq(Tail(s))

SeqsUpTo(S, n) == UNION {[1..k -> S] : k \in 0..n}

\* dict[key] = val on a dict kept as a sequence of entries in insertion
\* order: an existing key keeps its position, a new key goes last.
DictPut(d, key, val) ==
    IF \E k \in 1..Len(d) : d[k].key = key
    THEN [k \in 1..Len(d) |-> IF d[k].key = key THEN [key |-> key, val |-> val] ELSE d[k]]
    ELSE Append(d, [key |-> key, val |-> val])

DictKeys(d) == {d[k].key : k \in 1..Len(d)}

DictGet(d, key) == (CHOOSE k \in 1..Len(d) : d[k].key = key)

\* ------------------------------------------------- analysed source files
\* A JavaScript source file as the analyzer sees it: its top-level
\* declarations in source order and the call sites inside them.
\*   kind "function"                 function f(...) {...}
\*   kind "class"                    class f {...}
\*   kind "export_default_function"  export default function f(...) {...}
\*                                   whose text contains "function ("
\*   call kind "call"                g(...) or obj.g(...)
\*   call kind "new"                 new g(...)
\* No call site uses this. or super.
Fn(n, l) == [name |-> n, line |-> l, kind |-> "function"]
Cls(n, l) == [name |-> n, line |-> l, kind |-> "class"]
ExpDef(n, l) == [name |-> n, line |-> l, kind |-> "export_default_function"]
Call(c, g, l) == [caller |-> c, callee |-> g, line |-> l, kind |-> "call"]
New(c, g, l) == [caller |-> c, callee |-> g, line |-> l, kind |-> "new"]

JSPrograms == {
    \* function f() { g();
    \*                g(); }
    [decls |-> <<Fn("f", 1)>>, calls |-> <<Call("f", "g", 1), Call("f", "g", 2)>>],
    \* function g() { g(); }
    [decls |-> <<Fn("g", 1)>>, calls |-> <<Call("g", "g", 1)>>],
    \* export default function f(cb) { return lib.default(function (x) { return x; }); }
    [decls |-> <<ExpDef("f", 1)>>, calls |-> <<Call("f", "default", 1)>>],
    \* class g {}
    \* function f() { h(); return new g(); }
    [decls |-> <<Cls("g", 1), Fn("f", 2)>>, calls |-> <<Call("f", "h", 2), New("f", "g", 2)>>],
    \* function h() { f(); f(); }     (both calls on one line)
    [decls |-> <<Fn("h", 1)>>, calls |-> <<Call("h", "f", 1), Call("h", "f", 1)>>]
}

\* A C source file: the functions it defines and the names they call.
CPrograms == {
    \* void g(void) { f(); h(); }
    [decls |-> <<Fn("g", 1)>>, calls |-> <<Call("g", "f", 1), Call("g", "h", 1)>>]
}

\* A PHP source file without a namespace declaration: its classes and
\* their methods in source order, and the object creations inside methods.
PhpCls(n, l) == [name |-> n, line |-> l, kind |-> "class", parent |-> ""]
PhpMethod(c, n, l) == [name |-> n, line |-> l, kind |-> "method", parent |-> c]
PhpNew(c, t, l) == [cls |-> c, type |-> t, line |-> l, kind |-> "new"]

PhpPrograms == {
    \* class a {
    \*   function g() { return new a(); } }
    [decls |-> <<PhpCls("a", 1), PhpMethod("a", "g", 2)>>, calls |-> <<PhpNew("a", "a", 2)>>],
    \* class f {
    \*   function g() { return new f(); } }
    [decls |-> <<PhpCls("f", 1), PhpMethod("f", "g", 2)>>, calls |-> <<PhpNew("f", "f", 2)>>]
}

JSFiles == [language : {"javascript"}, dir : {"/repo/"}, stem : {"a", "b"},
            ext : {"js"}, program : JSPrograms]

CFiles == [language : {"c"}, dir : {"/repo/"}, stem : {"a"},
           ext : {"c"}, program : CPrograms]

PhpFiles == [language : {"php"}, dir : {"/repo/"}, stem : {"a"},
             ext : {"php"}, program : PhpPrograms]

FileInfos == JSFiles \cup CFiles \cup PhpFiles

\* a.go and a.rb: code files by CODE_EXTENSIONS, without an analyzer
GoFiles == [language : {"go"}, dir : {"/repo/"}, stem : {"a"},
            ext : {"go"}, program : CPrograms]

RubyFiles == [language : {"ruby"}, dir : {"/repo/"}, stem : {"a"},
              ext : {"rb"}, program : CPrograms]

ModulePath(file) == <<file.stem>>

\* str(file_path) split on '.': "/repo/a.js" is <<"/repo/a", "js">>
FilePath(file) == <<file.dir \o file.stem, file.ext>>

\* the file lists a file tree can give: no path twice
FileLists ==
    {fl \in SeqsUpTo(FileInfos, MaxFiles) :
        /\ fl # <<>>
        /\ \A i, j \in 1..Len(fl) : FilePath(fl[i]) = FilePath(fl[j]) => i = j}

\* the lists that hold a file without an analyzer
NoAnalyzerLists ==
    {fl \in SeqsUpTo(FileInfos \cup GoFiles \cup RubyFiles, MaxFiles) :
        /\ \E k \in 1..Len(fl) : fl[k] \in GoFiles \cup RubyFiles
        /\ \A i, j \in 1..Len(fl) : FilePath(fl[i]) = FilePath(fl[j]) => i = j}

\* the files that declare something named f, and the lists of them
ClashFiles ==
    {file \in FileInfos :
        \E k \in 1..Len(file.program.decls) : file.program.decls[k].name = "f"}

ClashLists ==
    {fl \in SeqsUpTo(ClashFiles, MaxClashFiles) :
        /\ fl # <<>>
        /\ \A i, j \in 1..Len(fl) : FilePath(fl[i]) = FilePath(fl[j]) => i = j}

\* ------------------------------------------------ TreeSitterJSAnalyzer
MkNode(file, declared, name, ctype, line) ==
    [id |-> ModulePath(file) \o <<declared>>,
     name |-> <<name>>,
     component_type |-> ctype,
     component_id |-> ModulePath(file) \o <<declared>>,
     file_path |-> FilePath(file),
     start_line |-> line]

\* The nodes one declaration appends, in append order.  An export statement
\* is extracted by its own branch (which renames the node "default") and
\* then again as the function_declaration child the traversal descends to.
DeclNodes(file, d) ==
    CASE d.kind = "function" -> <<MkNode(file, d.name, d.name, "function", d.line)>>
      [] d.kind = "class" -> <<MkNode(file, d.name, d.name, "class", d.line)>>
      [] d.kind = "export_default_function" ->
            <<MkNode(file, d.name, "default", "function", d.line),
              MkNode(file, d.name, d.name, "function", d.line)>>

TraverseForFunctions(file) ==
    Flatten([k \in 1..Len(file.program.decls) |-> DeclNodes(file, file.program.decls[k])])

\* list.sort(key=start_line): stable
RECURSIVE InsertByStartLine(_, _)
InsertByStartLine(sorted, n) ==
    IF sorted = <<>> THEN <<n>>
    ELSE IF Head(sorted).start_line <= n.start_line
         THEN <<Head(sorted)>> \o InsertByStartLine(Tail(sorted), n)
         ELSE <<n>> \o sorted

RECURSIVE SortByStartLine(_)
SortByStartLine(ns) ==
    IF ns = <<>> THEN <<>>
    ELSE InsertByStartLine(SortByStartLine(SubSeq(ns, 1, Len(ns) - 1)), Last(ns))

\* keys of top_level_nodes after _extract_functions (no methods in the inputs)
TopLevelKeys(file) == {n.name[1] : n \in Range(TraverseForFunctions(file))}

ExtractCallFromNode(file, c) ==
    [caller |-> ModulePath(file) \o <<c.caller>>,
     callee |-> ModulePath(file) \o <<c.callee>>,
     call_line |-> c.line,
     is_resolved |-> (c.kind = "call" /\ c.callee \in TopLevelKeys(file))]

AddRelationship(rels, r) ==
    IF \E k \in 1..Len(rels) :
          /\ rels[k].caller = r.caller
          /\ rels[k].callee = r.callee
          /\ rels[k].call_line = r.call_line
    THEN rels
    ELSE Append(rels, r)

RECURSIVE TraverseForCalls(_, _)
TraverseForCalls(file, n) ==
    IF n = 0 THEN <<>>
    ELSE AddRelationship(TraverseForCalls(file, n - 1),
                         ExtractCallFromNode(file, file.program.calls[n]))

\* What analyze_javascript_file_treesitter returns.  analyze() swallows an
\* exception and the caller reads analyzer.nodes and
\* analyzer.call_relationships as they stand.
\*   parser_init    the parser could not be built: analyze() returns at once
\*   functions @ k  exception in _extract_functions after k appends
\*   calls @ k      exception in _extract_call_relationships after k call sites
AnalyzeJavascript(file, fault) ==
    CASE fault.kind = "none" ->
            [nodes |-> SortByStartLine(TraverseForFunctions(file)),
             rels |-> TraverseForCalls(file, Len(file.program.calls))]
      [] fault.kind = "parser_init" -> [nodes |-> <<>>, rels |-> <<>>]
      [] fault.kind = "functions" ->
            [nodes |-> SubSeq(TraverseForFunctions(file), 1, fault.at), rels |-> <<>>]
      [] fault.kind = "calls" ->
            [nodes |-> SortByStartLine(TraverseForFunctions(file)),
             rels |-> TraverseForCalls(file, fault.at)]

\* ------------------------------------------------ TreeSitterPHPAnalyzer
\* _extract_nodes: a method is named "<class>.<method>", and the id puts the
\* module path before the name
PhpNode(file, d) ==
    LET node_name == IF d.kind = "method" THEN <<d.parent, d.name>> ELSE <<d.name>>
    IN  [id |-> ModulePath(file) \o node_name,
         name |-> node_name,
         component_type |-> d.kind,
         component_id |-> ModulePath(file) \o node_name,
         file_path |-> FilePath(file),
         start_line |-> d.line]

PhpExtractNodes(file) ==
    [k \in 1..Len(file.program.decls) |-> PhpNode(file, file.program.decls[k])]

\* _extract_relationships, object creation: the containing class to the
\* type as NamespaceResolver.resolve leaves it without namespace or use
PhpRelationship(file, c) ==
    [caller |-> ModulePath(file) \o <<c.cls>>,
     callee |-> <<c.type>>,
     call_line |-> c.line,
     is_resolved |-> FALSE]

PhpExtractRelationships(file) ==
    [k \in 1..Len(file.program.calls) |-> PhpRelationship(file, file.program.calls[k])]

\* What analyze_php_file returns.  _analyze swallows an exception and the
\* caller reads analyzer.nodes and analyzer.call_relationships as they stand.
AnalyzePhp(file, fault) ==
    CASE fault.kind = "none" ->
            [nodes |-> PhpExtractNodes(file), rels |-> PhpExtractRelationships(file)]
      [] fault.kind = "parser_init" -> [nodes |-> <<>>, rels |-> <<>>]
      [] fault.kind = "functions" ->
            [nodes |-> SubSeq(PhpExtractNodes(file), 1, fault.at), rels |-> <<>>]
      [] fault.kind = "calls" ->
            [nodes |-> PhpExtractNodes(file),
             rels |-> SubSeq(PhpExtractRelationships(file), 1, fault.at)]

\* ------------------------------------------------------------ C analyzer
\* analyze_c_file: module-qualified ids, edges unresolved with the raw name.
AnalyzeC(file) ==
    [nodes |-> [k \in 1..Len(file.program.decls) |->
                   MkNode(file, file.program.decls[k].name, file.program.decls[k].name,
                          "function", file.program.decls[k].line)],
     rels |-> [k \in 1..Len(file.program.calls) |->
                   [caller |-> ModulePath(file) \o <<file.program.calls[k].caller>>,
                    callee |-> <<file.program.calls[k].callee>>,
                    call_line |-> file.program.calls[k].line,
                    is_resolved |-> FALSE]]]

\* ------------------------------------------------------- faults of a file
\* Where the analysis of a file can raise, and with which exception class.
ExceptionClasses == {"OSError", "RecursionError"}

\* the languages of the if/elif chain of _analyze_code_file
AnalyzerLanguages ==
    {"python", "javascript", "typescript", "java", "csharp", "c", "cpp", "php", "dml"}

\* _filter_supported_languages
SupportedLanguages ==
    {"python", "javascript", "typescript", "java", "csharp", "c", "cpp", "php",
     "go", "rust", "dml"}

FilterSupportedLanguages(fl) ==
    SelectSeq(fl, LAMBDA file_info : file_info.language \in SupportedLanguages)

Faults(file) ==
    {[kind |-> "none", at |-> 0, exc |-> "none"],
     [kind |-> "read", at |-> 0, exc |-> "OSError"]}
    \cup (IF file.language = "javascript"
          THEN {[kind |-> "parser_init", at |-> 0, exc |-> "none"]}
               \cup {[kind |-> "functions", at |-> k, exc |-> "RecursionError"] :
                        k \in 0..Len(TraverseForFunctions(file))}
               \cup {[kind |-> "calls", at |-> k, exc |-> "RecursionError"] :
                        k \in 0..(Len(file.program.calls) - 1)}
          ELSE IF file.language = "php"
          THEN {[kind |-> "parser_init", at |-> 0, exc |-> "none"]}
               \cup {[kind |-> "functions", at |-> k, exc |-> "RecursionError"] :
                        k \in 0..(Len(file.program.decls) - 1)}
               \cup {[kind |-> "calls", at |-> k, exc |-> "RecursionError"] :
                        k \in 0..(Len(file.program.calls) - 1)}
          ELSE IF file.language \in AnalyzerLanguages
          THEN {[kind |-> "analysis", at |-> 0, exc |-> "RecursionError"]}
          ELSE {})

\* ------------------------------------------------------ CallGraphAnalyzer
\* func_id = func.id if func.id else f"{file_path}:{func.name}"
LegacyId(file_path, name) ==
    <<file_path[1], file_path[2] \o ":" \o name[1]>> \o Tail(name)

FuncId(func) == IF func.id # <<>> THEN func.id ELSE LegacyId(func.file_path, func.name)

\* the node already registered under an id is kept
RECURSIVE MergeFunctionsKeepFirst(_, _)
MergeFunctionsKeepFirst(fs, nodes) ==
    IF nodes = <<>> THEN fs
    ELSE IF FuncId(Head(nodes)) \in DictKeys(fs)
    THEN MergeFunctionsKeepFirst(fs, Tail(nodes))
    ELSE MergeFunctionsKeepFirst(DictPut(fs, FuncId(Head(nodes)), Head(nodes)), Tail(nodes))

\* self.functions[func_id] = func, for each node of a file
RECURSIVE MergeFunctions(_, _)
MergeFunctions(fs, nodes) ==
    IF nodes = <<>> THEN fs
    ELSE MergeFunctions(DictPut(fs, FuncId(Head(nodes)), Head(nodes)), Tail(nodes))

OuterHandlerCatchesOSErrorOnly(exc) == exc = "OSError"

\* except Exception in _analyze_code_file
OuterHandlerCatches(exc) == exc \in ExceptionClasses

\* _analyze_<language>_file: what reaches the merge, and whether an
\* exception leaves _analyze_code_file.
\*   javascript, php: the analyzer's lists are merged as returned
\*   c: no handler around analyze_c_file; the raise skips the merge
\*   a language outside the if/elif chain: nothing is called
AnalyzeOutcome(file, fault) ==
    IF fault.kind = "read"
    THEN [nodes |-> <<>>, rels |-> <<>>, handler |-> "outer",
          escapes |-> ~OuterHandlerCatches(fault.exc)]
    ELSE IF file.language \notin AnalyzerLanguages
    THEN [nodes |-> <<>>, rels |-> <<>>, handler |-> "none", escapes |-> FALSE]
    ELSE IF file.language = "javascript"
    THEN [nodes |-> AnalyzeJavascript(file, fault).nodes,
          rels |-> AnalyzeJavascript(file, fault).rels,
          handler |-> IF fault.kind = "none" THEN "none" ELSE "analyzer",
          escapes |-> FALSE]
    ELSE IF file.language = "php"
    THEN [nodes |-> AnalyzePhp(file, fault).nodes,
          rels |-> AnalyzePhp(file, fault).rels,
          handler |-> IF fault.kind = "none" THEN "none" ELSE "analyzer",
          escapes |-> FALSE]
    ELSE IF fault.kind = "none"
    THEN [nodes |-> AnalyzeC(file).nodes, rels |-> AnalyzeC(file).rels,
          handler |-> "none", escapes |-> FALSE]
    ELSE [nodes |-> <<>>, rels |-> <<>>, handler |-> "outer",
          escapes |-> ~OuterHandlerCatches(fault.exc)]

\* func_lookup of _resolve_call_relationships, as a function key -> func_id
LookupPut(lk, key, val) == (key :> val) @@ lk

LookupAdd(lk, e) ==
    LET l1 == LookupPut(lk, e.key, e.key)
        l2 == LookupPut(l1, e.val.name, e.key)
        l3 == LookupPut(l2, e.val.component_id, e.key)
        method_name == <<Last(e.val.component_id)>>
    IN  IF e.val.component_id = <<>> THEN l2
        ELSE IF method_name \in DOMAIN l3 THEN l3
        ELSE LookupPut(l3, method_name, e.key)

RECURSIVE BuildLookup(_, _)
BuildLookup(fs, n) ==
    IF n = 0 THEN <<>>
    ELSE LookupAdd(BuildLookup(fs, n - 1), fs[n])

ResolveOneKeepingFlag(lk, r) ==
    IF r.callee \in DOMAIN lk
    THEN [r EXCEPT !.callee = lk[r.callee]]
    ELSE IF Len(r.callee) > 1 /\ <<Last(r.callee)>> \in DOMAIN lk
    THEN [r EXCEPT !.callee = lk[<<Last(r.callee)>>]]
    ELSE r

ResolveOne(lk, r) ==
    IF r.callee \in DOMAIN lk
    THEN [r EXCEPT !.callee = lk[r.callee], !.is_resolved = TRUE]
    ELSE IF Len(r.callee) > 1 /\ <<Last(r.callee)>> \in DOMAIN lk
    THEN [r EXCEPT !.callee = lk[<<Last(r.callee)>>], !.is_resolved = TRUE]
    ELSE r

\* the edges that miss the lookup are dropped
ResolveCallRelationshipsDroppingMisses(fs, rels) ==
    SelectSeq([k \in 1..Len(rels) |-> ResolveOne(BuildLookup(fs, Len(fs)), rels[k])],
              LAMBDA r : r.callee \in DictKeys(fs))

\* the edge loop of _resolve_call_relationships
ResolveCallRelationships(fs, rels) ==
    [k \in 1..Len(rels) |-> ResolveOne(BuildLookup(fs, Len(fs)), rels[k])]

DedupKeyWithLine(r) == <<r.caller, r.callee, r.call_line>>

DedupKey(r) == <<r.caller, r.callee>>

\* the last edge of each (caller, callee) pair is kept
RECURSIVE DeduplicateRelationshipsKeepLast(_)
DeduplicateRelationshipsKeepLast(rels) ==
    IF rels = <<>> THEN <<>>
    ELSE LET back == DeduplicateRelationshipsKeepLast(Tail(rels))
         IN  IF \E k \in 1..Len(back) : DedupKey(back[k]) = DedupKey(Head(rels))
             THEN back
             ELSE <<Head(rels)>> \o back

\* _deduplicate_relationships
RECURSIVE DeduplicateRelationships(_)
DeduplicateRelationships(rels) ==
    IF rels = <<>> THEN <<>>
    ELSE LET front == DeduplicateRelationships(SubSeq(rels, 1, Len(rels) - 1))
         IN  IF \E k \in 1..Len(front) : DedupKey(front[k]) = DedupKey(Last(rels))
             THEN front
             ELSE Append(front, Last(rels))

\* CODE_EXTENSIONS.get(file_ext, "unknown"), on the extension of a file path
ExtensionLanguage(file_path) ==
    IF Last(file_path) = "js" THEN "javascript"
    ELSE IF Last(file_path) = "c" THEN "c"
    ELSE IF Last(file_path) = "php" THEN "php"
    ELSE IF Last(file_path) = "go" THEN "go"
    ELSE IF Last(file_path) = "rb" THEN "ruby"
    ELSE "unknown"

\* every relationship gets an edge element
ResolvedOnlyUnfiltered(rels) == rels

\* [r for r in self.call_relationships if r.is_resolved]
ResolvedOnly(rels) == SelectSeq(rels, LAMBDA r : r.is_resolved)

\* the node elements: one per registry entry, in dict order (the "type" and
\* "classes" entries, derived from node_type, are left out)
NodeElements(fs) ==
    [k \in 1..Len(fs) |->
        [group |-> "node", id |-> fs[k].key, label |-> fs[k].val.name,
         file |-> fs[k].val.file_path,
         language |-> ExtensionLanguage(fs[k].val.file_path)]]

\* the edge elements: one per relationship with is_resolved; the id
\* f"{caller}->{callee}" is the two ids around an arrow
EdgeElements(rels) ==
    [k \in 1..Len(ResolvedOnly(rels)) |->
        [group |-> "edge",
         id |-> ResolvedOnly(rels)[k].caller \o <<"->">> \o ResolvedOnly(rels)[k].callee,
         source |-> ResolvedOnly(rels)[k].caller,
         target |-> ResolvedOnly(rels)[k].callee,
         line |-> ResolvedOnly(rels)[k].call_line]]

\* _generate_visualization_data
GenerateVisualizationData(fs, rels) ==
    [elements |-> NodeElements(fs) \o EdgeElements(rels),
     summary |-> [total_nodes |-> Len(fs),
                  total_edges |-> Len(ResolvedOnly(rels)),
                  unresolved_calls |-> Len(rels) - Len(ResolvedOnly(rels))]]

\* What analyze_code_files returns: the registry's values in dict order,
\* the resolved, deduplicated edges and the visualization data.
MakeResult(fs, rels, n) ==
    [functions |-> [k \in 1..Len(fs) |-> fs[k].val],
     relationships |-> rels,
     total_functions |-> Len(fs),
     total_calls |-> Len(rels),
     files_analyzed |-> n,
     visualization |-> GenerateVisualizationData(fs, rels)]

\* _analyze_call_graph: the result of analyze_code_files with
\* unsupported_files added
AnalyzeCallGraphResult(r, code, supported) ==
    [functions |-> r.functions,
     relationships |-> r.relationships,
     total_functions |-> r.total_functions,
     total_calls |-> r.total_calls,
     files_analyzed |-> r.files_analyzed,
     visualization |-> r.visualization,
     unsupported_files |-> Len(code) - Len(supported)]

NoResult == AnalyzeCallGraphResult(MakeResult(<<>>, <<>>, 0), <<>>, <<>>)

\* -------------------------------------------------------- DependencyParser
\* None is the empty string
None == <<>>

\* first loop of _build_components_from_analysis: self.components
RECURSIVE ComponentsOf(_, _)
ComponentsOf(funcs, n) ==
    IF n = 0 THEN <<>>
    ELSE IF funcs[n].id = <<>> THEN ComponentsOf(funcs, n - 1)
    ELSE DictPut(ComponentsOf(funcs, n - 1), funcs[n].id,
                 [id |-> funcs[n].id,
                  name |-> funcs[n].name,
                  component_type |-> funcs[n].component_type,
                  depends_on |-> {}])

\* first loop of _build_components_from_analysis: component_id_mapping
RECURSIVE ComponentIdMapping(_, _)
ComponentIdMapping(funcs, n) ==
    IF n = 0 THEN <<>>
    ELSE IF funcs[n].id = <<>> THEN ComponentIdMapping(funcs, n - 1)
    ELSE LET m1 == LookupPut(ComponentIdMapping(funcs, n - 1), funcs[n].id, funcs[n].id)
             legacy_id == LegacyId(funcs[n].file_path, funcs[n].name)
         IN  IF legacy_id # funcs[n].id THEN LookupPut(m1, legacy_id, funcs[n].id) ELSE m1

CallerComponentId(mapping, caller_id) ==
    IF caller_id \in DOMAIN mapping THEN mapping[caller_id] ELSE None

\* component_id_mapping.get(callee_id), else the first component (dict
\* order) whose name is the callee string
CalleeComponentId(comps, mapping, callee_id) ==
    IF callee_id \in DOMAIN mapping THEN mapping[callee_id]
    ELSE IF \E k \in 1..Len(comps) : comps[k].val.name = callee_id
    THEN comps[CHOOSE k \in 1..Len(comps) :
                  /\ comps[k].val.name = callee_id
                  /\ \A j \in 1..(k - 1) : comps[j].val.name # callee_id].key
    ELSE None

\* the relationship loop adding the callee string as it stands
AddDependencyRawCallee(comps, mapping, rel) ==
    LET caller_component_id == CallerComponentId(mapping, rel.caller)
    IN  IF caller_component_id # None /\ caller_component_id \in DictKeys(comps)
        THEN [k \in 1..Len(comps) |->
                 IF comps[k].key = caller_component_id
                 THEN [comps[k] EXCEPT !.val.depends_on = @ \cup {rel.callee}]
                 ELSE comps[k]]
        ELSE comps

\* one iteration of the relationship loop
AddDependency(comps, mapping, rel) ==
    LET caller_component_id == CallerComponentId(mapping, rel.caller)
        callee_component_id == CalleeComponentId(comps, mapping, rel.callee)
    IN  IF /\ caller_component_id # None
           /\ caller_component_id \in DictKeys(comps)
           /\ callee_component_id # None
        THEN [k \in 1..Len(comps) |->
                 IF comps[k].key = caller_component_id
                 THEN [comps[k] EXCEPT !.val.depends_on = @ \cup {callee_component_id}]
                 ELSE comps[k]]
        ELSE comps

RECURSIVE AddDependencies(_, _, _)
AddDependencies(comps, mapping, rels) ==
    IF rels = <<>> THEN comps
    ELSE AddDependencies(AddDependency(comps, mapping, Head(rels)), mapping, Tail(rels))

BuildComponentsFromAnalysis(res) ==
    AddDependencies(ComponentsOf(res.functions, Len(res.functions)),
                    ComponentIdMapping(res.functions, Len(res.functions)),
                    res.relationships)

\* ------------------------------------------------ text as characters
\* Where the code looks inside a string (lower(), strip(), substring,
\* glob matching) the string is the sequence of its characters.
Upper == <<"A", "B", "C", "D", "E", "F", "G", "H", "I", "J", "K", "L", "M",
           "N", "O", "P", "Q", "R", "S", "T", "U", "V", "W", "X", "Y", "Z">>

Lowercase == <<"a", "b", "c", "d", "e", "f", "g", "h", "i", "j", "k", "l", "m",
               "n", "o", "p", "q", "r", "s", "t", "u", "v", "w", "x", "y", "z">>

LowerChar(c) ==
    IF \E k \in 1..26 : Upper[k] = c
    THEN Lowercase[CHOOSE k \in 1..26 : Upper[k] = c]
    ELSE c

\* str.lower()
Lower(s) == [k \in 1..Len(s) |-> LowerChar(s[k])]

\* sub in s
Contains(s, sub) ==
    \E i \in 0..(Len(s) - Len(sub)) : SubSeq(s, i + 1, i + Len(sub)) = sub

Whitespace == {" ", "\t", "\n"}

\* s.strip() == ""
IsBlank(s) == \A k \in 1..Len(s) : s[k] \in Whitespace

\* ------------------------------------- DependencyGraphBuilder: leaf nodes
ErrKeywords == {<<"e", "r", "r", "o", "r">>,
                <<"e", "x", "c", "e", "p", "t", "i", "o", "n">>,
                <<"f", "a", "i", "l", "e", "d">>,
                <<"i", "n", "v", "a", "l", "i", "d">>}

\* identifiers the registry may hold: "a.f", "a.C", "a.onError"
RegistryIds == {<<"a", ".", "f">>,
                <<"a", ".", "C">>,
                <<"a", ".", "o", "n", "E", "r", "r", "o", "r">>}

\* identifiers the graph algorithm may hand back: registry ids, "", " ",
\* "FAILED" and "x"
LeafIds == RegistryIds \cup {<<>>, <<" ">>, <<"F", "A", "I", "L", "E", "D">>, <<"x">>}

ComponentTypes == {"function", "method", "class", "interface", "struct"}

Registries == UNION {[ids -> ComponentTypes] : ids \in SUBSET RegistryIds}

\* topo_sort.get_leaf_nodes: any list of identifiers
GetLeafNodesResults == SeqsUpTo(LeafIds, MaxLeaves)

AvailableTypes(comps) == {comps[id] : id \in DOMAIN comps}

StructuralTypes == {"class", "interface", "struct"}

ValidTypesAlwaysWithFunction(comps) == StructuralTypes \cup {"function"}

ValidTypes(comps) ==
    IF AvailableTypes(comps) \cap StructuralTypes = {}
    THEN StructuralTypes \cup {"function"}
    ELSE StructuralTypes

HasErrKeywordCaseSensitive(leaf) == \E kw \in ErrKeywords : Contains(leaf, kw)

\* any(err_keyword in leaf_node.lower() for err_keyword in [...])
HasErrKeyword(leaf) == \E kw \in ErrKeywords : Contains(Lower(leaf), kw)

IsInvalidIdentifier(leaf) == IsBlank(leaf) \/ HasErrKeyword(leaf)

\* the loop over leaf_nodes
RECURSIVE KeepLeafNodes(_, _)
KeepLeafNodes(comps, leaves) ==
    IF leaves = <<>> THEN <<>>
    ELSE LET front == KeepLeafNodes(comps, SubSeq(leaves, 1, Len(leaves) - 1))
             leaf == Last(leaves)
         IN  IF IsInvalidIdentifier(leaf) THEN front
             ELSE IF leaf \in DOMAIN comps /\ comps[leaf] \in ValidTypes(comps)
             THEN Append(front, leaf)
             ELSE front

LeafInit ==
    /\ leaf_pc = "parsed"
    /\ graph_components \in Registries
    /\ leaf_nodes = <<>>
    /\ keep_leaf_nodes = <<>>

LeafIdle ==
    /\ leaf_pc = "idle"
    /\ graph_components = <<>>
    /\ leaf_nodes = <<>>
    /\ keep_leaf_nodes = <<>>

\* leaf_nodes = get_leaf_nodes(graph, components)
GetLeafNodes ==
    /\ leaf_pc = "parsed"
    /\ leaf_nodes' \in GetLeafNodesResults
    /\ leaf_pc' = "leaves"
    /\ UNCHANGED <<graph_components, keep_leaf_nodes>>
    /\ UNCHANGED <<cgVars, treeVars, extVars>>

\* the type selection and the loop over leaf_nodes, up to the return
SelectLeafNodes ==
    /\ leaf_pc = "leaves"
    /\ keep_leaf_nodes' = KeepLeafNodes(graph_components, leaf_nodes)
    /\ leaf_pc' = "done"
    /\ UNCHANGED <<graph_components, leaf_nodes>>
    /\ UNCHANGED <<cgVars, treeVars, extVars>>

\* ------------------------------------------------ RepoAnalyzer: file tree
\* A path string, a name and a pattern are tuples of characters; a resolved
\* absolute path is the sequence of its parts below "/".

\* code point order of the characters of the names
CharOrder == <<".", "_">> \o Lowercase

CharIndex(c) == CHOOSE k \in 1..Len(CharOrder) : CharOrder[k] = c

\* a < b on str
StrLess(a, b) ==
    \E k \in 1..Len(b) :
        /\ k <= Len(a) + 1
        /\ \A j \in 1..(k - 1) : a[j] = b[j]
        /\ (k = Len(a) + 1 \/ CharIndex(a[k]) < CharIndex(b[k]))

\* s.startswith(prefix)
StartsWith(s, prefix) ==
    Len(prefix) <= Len(s) /\ SubSeq(s, 1, Len(prefix)) = prefix

\* s.endswith(suffix)
EndsWith(s, suffix) ==
    Len(suffix) <= Len(s) /\ SubSeq(s, Len(s) - Len(suffix) + 1, Len(s)) = suffix

\* s.rstrip("/")
RECURSIVE RStripSlash(_)
RStripSlash(s) ==
    IF s # <<>> /\ Last(s) = "/" THEN RStripSlash(SubSeq(s, 1, Len(s) - 1)) ELSE s

\* s.split("/")
RECURSIVE SplitSlash(_)
SplitSlash(s) ==
    IF \E k \in 1..Len(s) : s[k] = "/"
    THEN LET i == CHOOSE k \in 1..Len(s) : s[k] = "/" /\ \A j \in 1..(k - 1) : s[j] # "/"
         IN  <<SubSeq(s, 1, i - 1)>> \o SplitSlash(SubSeq(s, i + 1, Len(s)))
    ELSE <<s>>

\* fnmatch.fnmatch(name, pat) on POSIX, for patterns of literals, "*" and "?"
RECURSIVE FnMatch(_, _)
FnMatch(name, pat) ==
    IF pat = <<>> THEN name = <<>>
    ELSE IF Head(pat) = "*"
    THEN \E k \in 0..Len(name) : FnMatch(SubSeq(name, k + 1, Len(name)), Tail(pat))
    ELSE IF name = <<>> THEN FALSE
    ELSE (Head(pat) = "?" \/ Head(pat) = Head(name)) /\ FnMatch(Tail(name), Tail(pat))

\* the members of DEFAULT_IGNORE_PATTERNS that match a name of EntryCatalogue
\* ("tests", "bin/", "*.ini"), and ".git" and "*.pyc"; the other members
\* match no name of the catalogue
DEFAULT_IGNORE_PATTERNS ==
    << <<".", "g", "i", "t">>,
       <<"*", ".", "p", "y", "c">>,
       <<"b", "i", "n", "/">>,
       <<"*", ".", "i", "n", "i">>,
       <<"t", "e", "s", "t", "s">> >>

\* of DEFAULT_INCLUDE_PATTERNS: "*.py", "*.js", "*.md", "*.ini"; the other
\* members match no name of the catalogue
DEFAULT_INCLUDE_PATTERNS ==
    << <<"*", ".", "p", "y">>,
       <<"*", ".", "j", "s">>,
       <<"*", ".", "m", "d">>,
       <<"*", ".", "i", "n", "i">> >>

\* an Optional[List[str]] argument: not given (None) or a list
NotGiven == [given |-> FALSE, patterns |-> <<>>]

Given(ps) == [given |-> TRUE, patterns |-> ps]

\* include_patterns arguments: None, [], ["*.py"], ["g*", "*.dat"]
IncludeArgs ==
    {NotGiven,
     Given(<<>>),
     Given(<< <<"*", ".", "p", "y">> >>),
     Given(<< <<"g", "*">>, <<"*", ".", "d", "a", "t">> >>)}

\* exclude_patterns arguments: None, ["g*"], ["src"]
ExcludeArgs ==
    {NotGiven,
     Given(<< <<"g", "*">> >>),
     Given(<< <<"s", "r", "c">> >>)}

\* what a directory can hold: a regular file, a directory, a symlink (kind
\* and entries are those of its target), something else (a fifo)
File(n, sz) ==
    [name |-> n, kind |-> "file", is_symlink |-> FALSE, target |-> <<>>,
     readable |-> TRUE, size |-> sz, entries |-> {}]

Dir(n, rd, es) ==
    [name |-> n, kind |-> "dir", is_symlink |-> FALSE, target |-> <<>>,
     readable |-> rd, size |-> 0, entries |-> es]

Symlink(n, k, tgt, sz, es) ==
    [name |-> n, kind |-> k, is_symlink |-> TRUE, target |-> tgt,
     readable |-> TRUE, size |-> sz, entries |-> es]

Other(n) ==
    [name |-> n, kind |-> "other", is_symlink |-> FALSE, target |-> <<>>,
     readable |-> TRUE, size |-> 0, entries |-> {}]

\* m.py, c.ini, g.py, d.dat; src/{n.py, c.ini}, tests/{t.py}, bin/{b.py},
\* e/ (empty), u/{k.py} (unreadable); l.py -> /etc/p (a file),
\* v -> /repo2/v (a directory holding v.py); q.py (a fifo)
EntryCatalogue ==
    {File(<<"m", ".", "p", "y">>, 1),
     File(<<"c", ".", "i", "n", "i">>, 2),
     File(<<"g", ".", "p", "y">>, 1),
     File(<<"d", ".", "d", "a", "t">>, 2),
     Dir(<<"s", "r", "c">>, TRUE,
         {File(<<"n", ".", "p", "y">>, 1), File(<<"c", ".", "i", "n", "i">>, 2)}),
     Dir(<<"t", "e", "s", "t", "s">>, TRUE, {File(<<"t", ".", "p", "y">>, 1)}),
     Dir(<<"b", "i", "n">>, TRUE, {File(<<"b", ".", "p", "y">>, 1)}),
     Dir(<<"e">>, TRUE, {}),
     Dir(<<"u">>, FALSE, {File(<<"k", ".", "p", "y">>, 1)}),
     Symlink(<<"l", ".", "p", "y">>, "file", << <<"e", "t", "c">>, <<"p">> >>, 1, {}),
     Symlink(<<"v">>, "dir", << <<"r", "e", "p", "o", "2">>, <<"v">> >>, 0,
             {File(<<"v", ".", "p", "y">>, 1)}),
     Other(<<"q", ".", "p", "y">>)}

\* names of the root directory: "repo", "tests"
RootNames == {<<"r", "e", "p", "o">>, <<"t", "e", "s", "t", "s">>}

\* the repositories: a root directory holding up to MaxEntries entries
Repos ==
    {Dir(n, TRUE, es) : n \in RootNames,
                        es \in {s \in SUBSET EntryCatalogue : Cardinality(s) <= MaxEntries}}

\* str(Path(".")): the relative path of the root
Dot == <<".">>

\* str(relative_path) of a child
JoinPath(relative_path_str, n) ==
    IF relative_path_str = Dot THEN n ELSE relative_path_str \o <<"/">> \o n

\* str() of a resolved path
PathStr(parts) ==
    IF parts = <<>> THEN <<"/">>
    ELSE Flatten([k \in 1..Len(parts) |-> <<"/">> \o parts[k]])

\* base_path.resolve(): the root is /<name>
BaseResolved == <<repo.name>>

\* (path / child).resolve()
ResolveChild(resolved, child) ==
    IF child.is_symlink THEN child.target ELSE Append(resolved, child.name)

\* PurePath.is_relative_to
IsRelativeTo(parts, base) ==
    Len(base) <= Len(parts) /\ SubSeq(parts, 1, Len(base)) = base

\* path.suffix
Suffix(n) ==
    IF \E k \in 2..(Len(n) - 1) : n[k] = "."
    THEN LET i == CHOOSE k \in 2..(Len(n) - 1) :
                      n[k] = "." /\ \A j \in (k + 1)..Len(n) : n[j] # "."
         IN  SubSeq(n, i, Len(n))
    ELSE <<>>

\* sorted(path.iterdir()): the entries in the order of their names
RECURSIVE SortedEntries(_)
SortedEntries(es) ==
    IF es = {} THEN <<>>
    ELSE LET first == CHOOSE e \in es : \A o \in es \ {e} : StrLess(e.name, o.name)
         IN  <<first>> \o SortedEntries(es \ {first})

\* path.iterdir(): the entries in the order the OS lists them
ListingOrders == {"ascending", "descending"}

RECURSIVE Reverse(_)
Reverse(sq) == IF sq = <<>> THEN <<>> ELSE Append(Reverse(Tail(sq)), Head(sq))

IterDir(entry) ==
    IF iterdir_order = "ascending" THEN SortedEntries(entry.entries)
    ELSE Reverse(SortedEntries(entry.entries))

\* the children are visited in listing order
KeptInListingOrder(listing) == listing

\* sorted(path.iterdir())
SortedPaths(listing) == SortedEntries(Range(listing))

\* _should_exclude_path
ShouldExcludePath(path, filename) ==
    \E k \in 1..Len(exclude_patterns) :
        LET pattern == exclude_patterns[k]
        IN  \/ FnMatch(path, pattern) \/ FnMatch(filename, pattern)
            \/ EndsWith(pattern, <<"/">>) /\ StartsWith(path, RStripSlash(pattern))
            \/ StartsWith(path, pattern \o <<"/">>) \/ path = pattern
            \/ pattern \in Range(SplitSlash(path))

\* an empty include list matches nothing
ShouldIncludeFileEmptyMatchesNothing(path, filename) ==
    \E k \in 1..Len(include_patterns) :
        FnMatch(path, include_patterns[k]) \/ FnMatch(filename, include_patterns[k])

\* _should_include_file
ShouldIncludeFile(path, filename) ==
    IF include_patterns = <<>> THEN TRUE
    ELSE \E k \in 1..Len(include_patterns) :
            FnMatch(path, include_patterns[k]) \/ FnMatch(filename, include_patterns[k])

\* path.is_symlink() is not consulted
IsSymlinkNotConsulted(entry) == FALSE

\* path.is_symlink()
IsSymlink(entry) == entry.is_symlink

\* the escape test: is_relative_to, or str.startswith where PurePath has no
\* is_relative_to (AttributeError)
ResolvesInside(resolved) ==
    IF has_is_relative_to
    THEN IsRelativeTo(resolved, BaseResolved)
    ELSE StartsWith(PathStr(resolved), PathStr(BaseResolved))

\* the include test first: a file matching an include pattern is kept
FilteredOutIncludeFirst(path, filename, is_file) ==
    IF is_file /\ ShouldIncludeFile(path, filename) THEN FALSE
    ELSE IF is_file THEN TRUE
    ELSE ShouldExcludePath(path, filename)

\* the exclude test, then for a file the include test
FilteredOut(path, filename, is_file) ==
    IF ShouldExcludePath(path, filename) THEN TRUE
    ELSE is_file /\ ~ShouldIncludeFile(path, filename)

\* return None
NoTree == <<>>

\* build_tree(path, base_path)
RECURSIVE build_tree(_, _, _)
build_tree(entry, relative_path_str, resolved) ==
    IF IsSymlink(entry) THEN NoTree
    ELSE IF ~ResolvesInside(resolved) THEN NoTree
    ELSE IF FilteredOut(relative_path_str, entry.name, entry.kind = "file") THEN NoTree
    ELSE IF entry.kind = "file"
    THEN [type |-> "file", name |-> entry.name, path |-> relative_path_str,
          extension |-> Suffix(entry.name), size_bytes |-> entry.size]
    ELSE IF entry.kind = "dir"
    THEN LET listed == IF entry.readable THEN SortedPaths(IterDir(entry)) ELSE <<>>
             built == [k \in 1..Len(listed) |->
                          build_tree(listed[k],
                                     JoinPath(relative_path_str, listed[k].name),
                                     ResolveChild(resolved, listed[k]))]
             children == SelectSeq(built, LAMBDA t : t # NoTree)
         IN  IF children # <<>> \/ relative_path_str = Dot
             THEN [type |-> "directory", name |-> entry.name,
                   path |-> relative_path_str, children |-> children]
             ELSE NoTree
    ELSE NoTree

\* _count_files
RECURSIVE CountFiles(_)
CountFiles(tree) ==
    IF tree.type = "file" THEN 1
    ELSE SumSeq([k \in 1..Len(tree.children) |-> CountFiles(tree.children[k])])

\* _calculate_size, in bytes: the division by 1024 is left out
RECURSIVE CalculateSize(_)
CalculateSize(tree) ==
    IF tree.type = "file" THEN tree.size_bytes
    ELSE SumSeq([k \in 1..Len(tree.children) |-> CalculateSize(tree.children[k])])

NoSummary == [total_files |-> 0, total_size_bytes |-> 0]

TreeInit ==
    /\ tree_pc = "fs"
    /\ repo \in Repos
    /\ has_is_relative_to \in BOOLEAN
    /\ include_arg = NotGiven
    /\ exclude_arg = NotGiven
    /\ include_patterns = <<>>
    /\ exclude_patterns = <<>>
    /\ file_tree = NoTree
    /\ summary = NoSummary
    /\ iterdir_order = "ascending"
    /\ prev_tree = NoTree
    /\ scan_orders = <<>>

TreeIdle ==
    /\ tree_pc = "idle"
    /\ repo = Dir(<<"r", "e", "p", "o">>, TRUE, {})
    /\ has_is_relative_to = TRUE
    /\ include_arg = NotGiven
    /\ exclude_arg = NotGiven
    /\ include_patterns = <<>>
    /\ exclude_patterns = <<>>
    /\ file_tree = NoTree
    /\ summary = NoSummary
    /\ iterdir_order = "ascending"
    /\ prev_tree = NoTree
    /\ scan_orders = <<>>

\* RepoAnalyzer.__init__
RepoAnalyzerInit ==
    /\ tree_pc = "fs"
    /\ include_arg' \in IncludeArgs
    /\ exclude_arg' \in ExcludeArgs
    /\ include_patterns' =
          IF include_arg'.given THEN include_arg'.patterns ELSE DEFAULT_INCLUDE_PATTERNS
    /\ exclude_patterns' =
          IF exclude_arg'.given
          THEN DEFAULT_IGNORE_PATTERNS \o exclude_arg'.patterns
          ELSE DEFAULT_IGNORE_PATTERNS
    /\ tree_pc' = "constructed"
    /\ UNCHANGED <<repo, has_is_relative_to, file_tree, summary,
                   iterdir_order, prev_tree, scan_orders>>
    /\ UNCHANGED <<cgVars, leafVars, extVars>>

\* analyze_repository_structure: the tree, then the summary, which raises
\* TypeError on a tree of None
ScanRepositoryStructure ==
    /\ LET tree == build_tree(repo, Dot, BaseResolved)
       IN  /\ file_tree' = tree
           /\ IF tree = NoTree
              THEN /\ summary' = NoSummary
                   /\ tree_pc' = "raised"
              ELSE /\ summary' = [total_files |-> CountFiles(tree),
                                  total_size_bytes |-> CalculateSize(tree)]
                   /\ tree_pc' = IF tree_pc = "constructed" THEN "returned" ELSE "rescanned"
    /\ prev_tree' = file_tree
    /\ scan_orders' = Append(scan_orders, iterdir_order)
    /\ UNCHANGED <<repo, has_is_relative_to, include_arg, exclude_arg,
                   include_patterns, exclude_patterns, iterdir_order>>
    /\ UNCHANGED <<cgVars, leafVars, extVars>>

\* the first call on the instance
AnalyzeRepositoryStructure ==
    /\ tree_pc = "constructed"
    /\ ScanRepositoryStructure

\* a second call on the same instance and the same directory
AnalyzeRepositoryStructureAgain ==
    /\ tree_pc = "returned"
    /\ ScanRepositoryStructure

\* between two listings the OS comes to list directories in the other order
ListingOrderChanges ==
    /\ tree_pc \in {"fs", "returned"}
    /\ iterdir_order' \in ListingOrders \ {iterdir_order}
    /\ UNCHANGED <<tree_pc, repo, has_is_relative_to, include_arg, exclude_arg,
                   include_patterns, exclude_patterns, file_tree, summary,
                   prev_tree, scan_orders>>
    /\ UNCHANGED <<cgVars, leafVars, extVars>>

\* ----------------------------------------------------------------- actions
CGInit ==
    /\ pc = "idle"
    /\ supported_files = <<>>
    /\ file_idx = 1
    /\ functions = <<>>
    /\ call_relationships = <<>>
    /\ files_analyzed = 0
    /\ runs = 0
    /\ contrib = <<>>
    /\ merged = <<>>
    /\ resolved_rels = <<>>
    /\ result = NoResult
    /\ components = <<>>

\* _analyze_call_graph up to the loop of analyze_code_files: the filter,
\* then a first call, or a later call on the same instance with the same
\* list; nothing is returned yet
AnalyzeCodeFilesBegin ==
    /\ runs < MaxRuns
    /\ pc \in {"idle", "returned"}
    /\ code_files # <<>>
    /\ pc' = "loop"
    /\ runs' = runs + 1
    /\ functions' = <<>>
    /\ call_relationships' = <<>>
    /\ files_analyzed' = 0
    /\ file_idx' = 1
    /\ contrib' = <<>>
    /\ merged' = <<>>
    /\ resolved_rels' = <<>>
    /\ result' = NoResult
    /\ supported_files' = FilterSupportedLanguages(code_files)
    /\ UNCHANGED <<code_files, components>>
    /\ UNCHANGED <<leafVars, treeVars, extVars>>

\* one iteration of the loop: _analyze_code_file on the next file
AnalyzeCodeFile ==
    /\ pc = "loop"
    /\ file_idx <= Len(supported_files)
    /\ \E fault \in Faults(supported_files[file_idx]) :
          LET out == AnalyzeOutcome(supported_files[file_idx], fault)
          IN  IF out.escapes
              THEN /\ pc' = "raised"
                   /\ UNCHANGED <<functions, call_relationships, files_analyzed,
                                  file_idx, contrib>>
              ELSE /\ functions' = MergeFunctions(functions, out.nodes)
                   /\ call_relationships' = call_relationships \o out.rels
                   /\ files_analyzed' = files_analyzed + 1
                   /\ file_idx' = file_idx + 1
                   /\ contrib' = Append(contrib, [failed |-> fault.kind # "none",
                                                  handler |-> out.handler,
                                                  nodes |-> out.nodes,
                                                  rels |-> out.rels])
                   /\ pc' = "loop"
    /\ UNCHANGED <<code_files, supported_files, runs, merged, resolved_rels, result,
                   components>>
    /\ UNCHANGED <<leafVars, treeVars, extVars>>

\* after the loop: resolve, deduplicate, return
AnalyzeCodeFilesEnd ==
    /\ pc = "loop"
    /\ file_idx > Len(supported_files)
    /\ merged' = call_relationships
    /\ resolved_rels' = ResolveCallRelationships(functions, call_relationships)
    /\ call_relationships' = DeduplicateRelationships(resolved_rels')
    /\ result' = AnalyzeCallGraphResult(
                     MakeResult(functions, call_relationships', files_analyzed),
                     code_files, supported_files)
    /\ pc' = "returned"
    /\ UNCHANGED <<code_files, supported_files, file_idx, functions, files_analyzed,
                   runs, contrib, components>>
    /\ UNCHANGED <<leafVars, treeVars, extVars>>

\* DependencyParser._build_components_from_analysis on the returned result
BuildComponents ==
    /\ pc = "returned"
    /\ components' = BuildComponentsFromAnalysis(result)
    /\ pc' = "built"
    /\ UNCHANGED <<code_files, supported_files, file_idx, functions, call_relationships,
                   files_analyzed,
                   runs, contrib, merged, resolved_rels, result>>
    /\ UNCHANGED <<leafVars, treeVars, extVars>>

\* ------------------------------------------------------ dispatch by extension
\* CODE_EXTENSIONS
CODE_EXTENSIONS ==
    (<<".", "p", "y">> :> "python")
    @@ (<<".", "j", "s">> :> "javascript")
    @@ (<<".", "t", "s">> :> "typescript")
    @@ (<<".", "j", "s", "x">> :> "javascript")
    @@ (<<".", "t", "s", "x">> :> "typescript")
    @@ (<<".", "j", "a", "v", "a">> :> "java")
    @@ (<<".", "c", "p", "p">> :> "cpp")
    @@ (<<".", "c", "c">> :> "cpp")
    @@ (<<".", "c", "x", "x">> :> "cpp")
    @@ (<<".", "c", "+", "+">> :> "cpp")
    @@ (<<".", "c">> :> "c")
    @@ (<<".", "h">> :> "c")
    @@ (<<".", "h", "p", "p">> :> "cpp")
    @@ (<<".", "h", "x", "x">> :> "cpp")
    @@ (<<".", "h", "+", "+">> :> "cpp")
    @@ (<<".", "r", "s">> :> "rust")
    @@ (<<".", "g", "o">> :> "go")
    @@ (<<".", "p", "h", "p">> :> "php")
    @@ (<<".", "r", "b">> :> "ruby")
    @@ (<<".", "s", "w", "i", "f", "t">> :> "swift")
    @@ (<<".", "k", "t">> :> "kotlin")
    @@ (<<".", "s", "c", "a", "l", "a">> :> "scala")
    @@ (<<".", "c", "s">> :> "csharp")

\* the extensions of the files of a file tree: the mapped ones, the ones
\* the DML analyzer strips from a module path, and some others
DmlExtensions == {<<".", "d", "m", "l">>, <<".", "s", "q", "l">>, <<".", "d", "d", "l">>}

\* the others: ".PY", ".Js", ".txt", ""
TreeExtensions ==
    DOMAIN CODE_EXTENSIONS \cup DmlExtensions
    \cup {<<".", "P", "Y">>, <<".", "J", "s">>, <<".", "t", "x", "t">>, <<>>}

\* a file entry of the file tree
TreeFile(ext) ==
    [type |-> "file", name |-> <<"a">> \o ext, path |-> <<"a">> \o ext, extension |-> ext]

TreeFileLists == SeqsUpTo({TreeFile(ext) : ext \in TreeExtensions}, MaxTreeFiles) \ {<<>>}

\* extract_code_files: traverse, on the file entries in tree order
RECURSIVE ExtractCodeFiles(_)
ExtractCodeFiles(entries) ==
    IF entries = <<>> THEN <<>>
    ELSE LET tree == Head(entries)
             ext == Lower(tree.extension)
         IN  (IF ext \in DOMAIN CODE_EXTENSIONS
              THEN << [path |-> tree.path, name |-> tree.name, extension |-> ext,
                       language |-> CODE_EXTENSIONS[ext]] >>
              ELSE <<>>) \o ExtractCodeFiles(Tail(entries))

\* the if/elif chain of _analyze_code_file: the analyzer that is called
RoutedAnalyzer(file_info) ==
    IF file_info.language \in AnalyzerLanguages THEN file_info.language ELSE "none"

DispatchInit ==
    /\ disp_pc = "tree"
    /\ disp_tree \in TreeFileLists
    /\ disp_code_files = <<>>
    /\ disp_routed = <<>>

DispatchIdle ==
    /\ disp_pc = "idle"
    /\ disp_tree = <<>>
    /\ disp_code_files = <<>>
    /\ disp_routed = <<>>

\* _analyze_call_graph, first statement
ExtractCodeFilesStep ==
    /\ disp_pc = "tree"
    /\ disp_code_files' = ExtractCodeFiles(disp_tree)
    /\ disp_pc' = "extracted"
    /\ UNCHANGED <<disp_tree, disp_routed>>
    /\ UNCHANGED exceptDispatchVars

\* _analyze_call_graph, the filter and the loop of analyze_code_files
RouteCodeFiles ==
    /\ disp_pc = "extracted"
    /\ disp_routed' =
          LET supported == FilterSupportedLanguages(disp_code_files)
          IN  [k \in 1..Len(supported) |->
                  [path |-> supported[k].path, analyzer |-> RoutedAnalyzer(supported[k])]]
    /\ disp_pc' = "routed"
    /\ UNCHANGED <<disp_tree, disp_code_files>>
    /\ UNCHANGED exceptDispatchVars

\* ---------------------------------------------------------------- get_model
\* a model name is a sequence of pieces of text; "github_copilot/" is the
\* two pieces "github_copilot" and "/"
COPILOT_PREFIX == <<"github_copilot", "/">>

ModelPieces == {"github_copilot", "/", "gpt-4o"}

ModelNames == SeqsUpTo(ModelPieces, MaxModelLen)

\* the prefix is always added
get_model_always_prefixing(model) == COPILOT_PREFIX \o model

\* get_model
get_model(model) ==
    IF ~StartsWith(model, COPILOT_PREFIX) THEN COPILOT_PREFIX \o model ELSE model

ModelInit ==
    /\ gm_pc = "start"
    /\ gm_model \in ModelNames
    /\ gm_result = <<>>
    /\ gm_again = <<>>

ModelIdle ==
    /\ gm_pc = "idle"
    /\ gm_model = <<>>
    /\ gm_result = <<>>
    /\ gm_again = <<>>

\* get_model(model)
GetModel ==
    /\ gm_pc = "start"
    /\ gm_result' = get_model(gm_model)
    /\ gm_pc' = "called"
    /\ UNCHANGED <<gm_model, gm_again>>
    /\ UNCHANGED exceptModelVars

\* get_model on the value returned
GetModelAgain ==
    /\ gm_pc = "called"
    /\ gm_again' = get_model(gm_result)
    /\ gm_pc' = "called_again"
    /\ UNCHANGED <<gm_model, gm_result>>
    /\ UNCHANGED exceptModelVars

\* ------------------------------------------------------ str_replace_editor
\* A file text is the sequence of its lines (text.split("\n")), never empty.
EditorPaths == {"a.md", "b.md"}

EditorLines == {"one", "two"}

EditorTexts == SeqsUpTo(EditorLines, MaxLines) \ {<<>>}

\* json.loads of the stored history: a dict whose keys are strings
JsonLoads(text) == text.json

\* a pathlib.Path used as a dict key; it never equals a str key
PathKey(path) == [Path |-> path]

\* EditTool._file_history (getter): a new defaultdict(list) built from the
\* registry at every access
FileHistory(REGISTRY) ==
    IF "file_history" \in DictKeys(REGISTRY)
    THEN JsonLoads(REGISTRY[DictGet(REGISTRY, "file_history")].val)
    ELSE <<>>

\* self._file_history[path] on that defaultdict
HistoryOf(REGISTRY, path) ==
    LET history == FileHistory(REGISTRY)
    IN  IF PathKey(path) \in DictKeys(history)
        THEN history[DictGet(history, PathKey(path))].val
        ELSE <<>>

\* self._file_history[path].append(text) / .pop(): the list of a defaultdict
\* made for this access is changed, the registry is not written
RegistryAfterHistoryChange(REGISTRY, path, new_list) == REGISTRY

\* file_content.count(old_str) for old_str a whole line
CountLine(text, old_str) == Cardinality({k \in 1..Len(text) : text[k] = old_str})

\* file_content.replace(old_str, new_str)
ReplaceLine(text, old_str, new_str) ==
    [k \in 1..Len(text) |-> IF text[k] = old_str THEN new_str ELSE text[k]]

\* file_text_lines[:insert_line] + new_str_lines + file_text_lines[insert_line:]
InsertLine(text, insert_line, new_str) ==
    SubSeq(text, 1, insert_line) \o <<new_str>> \o SubSeq(text, insert_line + 1, Len(text))

NoCall == [command |-> "none", path |-> "", ok |-> FALSE, before |-> None]

EditorCall(command, path, ok) ==
    [command |-> command, path |-> path, ok |-> ok, before |-> ed_files[path]]

EditorInit ==
    /\ ed_files \in [EditorPaths -> EditorTexts \cup {None}]
    /\ ed_registry = <<>>
    /\ ed_call = NoCall
    /\ ed_prev_call = NoCall

EditorIdle ==
    /\ ed_files = <<>>
    /\ ed_registry = <<>>
    /\ ed_call = NoCall
    /\ ed_prev_call = NoCall

\* str_replace_editor(working_dir="docs", command="create")
EditorCreate ==
    \E path \in EditorPaths, file_text \in EditorTexts :
        /\ ed_files # <<>>
        /\ IF ed_files[path] # None
           THEN \* validate_path: File already exists
                /\ ed_call' = EditorCall("create", path, FALSE)
                /\ UNCHANGED <<ed_files, ed_registry>>
           ELSE /\ ed_files' = [ed_files EXCEPT ![path] = file_text]
                /\ ed_registry' = RegistryAfterHistoryChange(ed_registry, path,
                                      Append(HistoryOf(ed_registry, path), file_text))
                /\ ed_call' = EditorCall("create", path, TRUE)
        /\ ed_prev_call' = ed_call
        /\ UNCHANGED exceptEditorVars

\* str_replace_editor(working_dir="docs", command="str_replace")
EditorStrReplace ==
    \E path \in EditorPaths, old_str \in EditorLines, new_str \in EditorLines :
        /\ ed_files # <<>>
        /\ IF \/ ed_files[path] = None
              \/ CountLine(ed_files[path], old_str) # 1
              \/ new_str = old_str
           THEN \* path does not exist / no or several occurrences / same text
                /\ ed_call' = EditorCall("str_replace", path, FALSE)
                /\ UNCHANGED <<ed_files, ed_registry>>
           ELSE /\ ed_files' = [ed_files EXCEPT
                                   ![path] = ReplaceLine(ed_files[path], old_str, new_str)]
                /\ ed_registry' = RegistryAfterHistoryChange(ed_registry, path,
                                      Append(HistoryOf(ed_registry, path), ed_files[path]))
                /\ ed_call' = EditorCall("str_replace", path, TRUE)
        /\ ed_prev_call' = ed_call
        /\ UNCHANGED exceptEditorVars

\* str_replace_editor(working_dir="docs", command="insert")
EditorInsert ==
    \E path \in EditorPaths, insert_line \in -1..(MaxLines + 1), new_str \in EditorLines :
        /\ ed_files # <<>>
        /\ ed_files[path] # None => Len(ed_files[path]) < MaxLines
        /\ IF \/ ed_files[path] = None
              \/ insert_line < 0
              \/ insert_line > Len(ed_files[path])
           THEN \* path does not exist / Invalid `insert_line`
                /\ ed_call' = EditorCall("insert", path, FALSE)
                /\ UNCHANGED <<ed_files, ed_registry>>
           ELSE /\ ed_files' = [ed_files EXCEPT
                                   ![path] = InsertLine(ed_files[path], insert_line, new_str)]
                /\ ed_registry' = RegistryAfterHistoryChange(ed_registry, path,
                                      Append(HistoryOf(ed_registry, path), ed_files[path]))
                /\ ed_call' = EditorCall("insert", path, TRUE)
        /\ ed_prev_call' = ed_call
        /\ UNCHANGED exceptEditorVars

\* str_replace_editor(working_dir="docs", command="undo_edit")
EditorUndoEdit ==
    \E path \in EditorPaths :
        /\ ed_files # <<>>
        /\ IF ed_files[path] = None \/ HistoryOf(ed_registry, path) = <<>>
           THEN \* path does not exist / No edit history found
                /\ ed_call' = EditorCall("undo_edit", path, FALSE)
                /\ UNCHANGED <<ed_files, ed_registry>>
           ELSE LET history == HistoryOf(ed_registry, path)
                IN  /\ ed_files' = [ed_files EXCEPT ![path] = Last(history)]
                    /\ ed_registry' = RegistryAfterHistoryChange(ed_registry, path,
                                          SubSeq(history, 1, Len(history) - 1))
                    /\ ed_call' = EditorCall("undo_edit", path, TRUE)
        /\ ed_prev_call' = ed_call
        /\ UNCHANGED exceptEditorVars

\* ------------------------------------------------ documentation generator
\* A module tree is a dict (sequence of entries in insertion order) from
\* module name to module info; the info's "children" is again such a dict,
\* empty for a leaf module.
ModuleNames == {"a", "b"}

ModuleEntry(name, children) == [key |-> name, val |-> [children |-> children]]

RECURSIVE ModuleCount(_)
ModuleCount(tree) ==
    IF tree = <<>> THEN 0
    ELSE 1 + ModuleCount(Head(tree).val.children) + ModuleCount(Tail(tree))

\* the module trees of at most n modules
RECURSIVE ModuleTrees(_)
ModuleTrees(n) ==
    IF n = 0 THEN {<<>>}
    ELSE {<<>>}
         \cup {<<ModuleEntry(name, c)>> : name \in ModuleNames, c \in ModuleTrees(n - 1)}
         \cup (IF n < 2 THEN {}
               ELSE {<<ModuleEntry(p[1], c[1]), ModuleEntry(p[2], c[2])>> :
                        p \in {q \in ModuleNames \X ModuleNames : q[1] # q[2]},
                        c \in {d \in ModuleTrees(n - 2) \X ModuleTrees(n - 2) :
                                  ModuleCount(d[1]) + ModuleCount(d[2]) <= n - 2}})

\* collect_modules with the parent appended before its children
RECURSIVE CollectModulesParentFirst(_, _)
CollectModulesParentFirst(tree, path) ==
    IF tree = <<>> THEN <<>>
    ELSE LET module_name == Head(tree).key
             module_info == Head(tree).val
             current_path == Append(path, module_name)
             item == [path |-> current_path, name |-> module_name]
         IN  (IF module_info.children # <<>>
              THEN <<item>> \o CollectModulesParentFirst(module_info.children, current_path)
              ELSE <<item>>)
             \o CollectModulesParentFirst(Tail(tree), path)

\* collect_modules(tree, path): what it appends to processing_order
RECURSIVE CollectModules(_, _)
CollectModules(tree, path) ==
    IF tree = <<>> THEN <<>>
    ELSE LET module_name == Head(tree).key
             module_info == Head(tree).val
             current_path == Append(path, module_name)
             item == [path |-> current_path, name |-> module_name]
         IN  (IF module_info.children # <<>>
              THEN CollectModules(module_info.children, current_path) \o <<item>>
              ELSE <<item>>)
             \o CollectModules(Tail(tree), path)

\* get_processing_order(module_tree)
get_processing_order(tree) == CollectModules(tree, <<>>)

\* the lookup loop of generate_module_documentation from path part k on.
\* module_info is a dict of modules (is_tree) or the info of one module;
\* indexing an info by a module name, or a dict by a missing name, is a
\* KeyError. Whether to step into "children" is decided by comparing the
\* part with the last part of the path.
RECURSIVE LookupFrom(_, _, _, _)
LookupFrom(module_info, is_tree, module_path, k) ==
    IF k > Len(module_path) THEN [raised |-> FALSE, info |-> module_info]
    ELSE LET path_part == module_path[k]
         IN  IF ~is_tree \/ path_part \notin DictKeys(module_info)
             THEN [raised |-> TRUE, info |-> <<>>]
             ELSE LET found == module_info[DictGet(module_info, path_part)].val
                  IN  IF path_part # Last(module_path)
                      THEN LookupFrom(found.children, TRUE, module_path, k + 1)
                      ELSE LookupFrom(found, FALSE, module_path, k + 1)

LookupModule(tree, module_path) == LookupFrom(tree, TRUE, module_path, 1)

\* "/".join(module_path)
RECURSIVE JoinSlash(_)
JoinSlash(module_path) ==
    IF Len(module_path) <= 1 THEN module_path
    ELSE <<Head(module_path), "/">> \o JoinSlash(Tail(module_path))

\* is_leaf_module(module_info)
is_leaf_module(module_info) == module_info.children = <<>>

Unbound == <<"unbound">>

DocsInit ==
    /\ doc_pc = "start"
    /\ first_module_tree \in ModuleTrees(MaxModules)
    /\ module_tree = first_module_tree
    /\ processing_order = <<>>
    /\ doc_idx = 1
    /\ module_key = Unbound
    /\ processed_modules = {}
    /\ doc_attempts = <<>>

DocsIdle ==
    /\ doc_pc = "idle"
    /\ first_module_tree = <<>>
    /\ module_tree = <<>>
    /\ processing_order = <<>>
    /\ doc_idx = 1
    /\ module_key = Unbound
    /\ processed_modules = {}
    /\ doc_attempts = <<>>

\* generate_module_documentation up to the loop
GetProcessingOrder ==
    /\ doc_pc = "start"
    /\ processing_order' = get_processing_order(first_module_tree)
    /\ doc_pc' = IF Len(module_tree) > 0 THEN "loop" ELSE "whole_repo"
    /\ UNCHANGED <<first_module_tree, module_tree, doc_idx, module_key,
                   processed_modules, doc_attempts>>
    /\ UNCHANGED exceptDocsVars

Attempt(outcome) ==
    Append(doc_attempts, [path |-> processing_order[doc_idx].path, outcome |-> outcome])

\* one iteration of the loop over processing_order; the agent or the LLM
\* call may raise
ProcessModule ==
    /\ doc_pc = "loop"
    /\ doc_idx <= Len(processing_order)
    /\ LET module_path == processing_order[doc_idx].path
           looked == LookupModule(module_tree, module_path)
       IN  IF looked.raised
           THEN \* KeyError; the handler formats module_key
                /\ doc_attempts' = Attempt("failed")
                /\ IF module_key = Unbound
                   THEN /\ doc_pc' = "loop_raised"
                        /\ UNCHANGED doc_idx
                   ELSE /\ doc_idx' = doc_idx + 1
                        /\ UNCHANGED doc_pc
                /\ UNCHANGED <<module_key, processed_modules>>
           ELSE /\ module_key' = JoinSlash(module_path)
                /\ doc_idx' = doc_idx + 1
                /\ UNCHANGED doc_pc
                /\ IF JoinSlash(module_path) \in processed_modules
                   THEN /\ doc_attempts' = Attempt("skipped")
                        /\ UNCHANGED processed_modules
                   ELSE \/ /\ doc_attempts' = Attempt("processed")
                           /\ processed_modules' =
                                 processed_modules \cup {JoinSlash(module_path)}
                        \/ /\ doc_attempts' = Attempt("failed")
                           /\ UNCHANGED processed_modules
    /\ UNCHANGED <<first_module_tree, module_tree, processing_order>>
    /\ UNCHANGED exceptDocsVars

\* generate_parent_module_docs([], working_dir) after the loop
GenerateRepoOverview ==
    /\ doc_pc = "loop"
    /\ doc_idx > Len(processing_order)
    /\ doc_pc' \in {"done", "overview_raised"}
    /\ UNCHANGED <<first_module_tree, module_tree, processing_order, doc_idx,
                   module_key, processed_modules, doc_attempts>>
    /\ UNCHANGED exceptDocsVars

\* the branch for an empty module tree: the whole repository as one module
ProcessWholeRepo ==
    /\ doc_pc = "whole_repo"
    /\ doc_pc' \in {"done", "whole_repo_raised"}
    /\ UNCHANGED <<first_module_tree, module_tree, processing_order, doc_idx,
                   module_key, processed_modules, doc_attempts>>
    /\ UNCHANGED exceptDocsVars

\* --------------------------------------------------------- background worker
JobIds == 1..MaxJobs

LoopIds == 1..MaxLoops

\* datetime.now(), a time as opposed to None
Now == <<"now">>

\* the JobStatus handed to add_job; returns counts the returns of
\* _process_job for the job
QueuedJob == [status |-> "queued", started_at |-> None, completed_at |-> None, returns |-> 0]

\* the first assignments of _process_job
JobStarted(job) == [job EXCEPT !.status = "processing", !.started_at = Now]

\* the except branch of _process_job without completed_at
JobFailedWithoutTime(job) == [job EXCEPT !.status = "failed", !.returns = @ + 1]

\* the except branch of _process_job
JobFailed(job) ==
    [job EXCEPT !.status = "failed", !.completed_at = Now, !.returns = @ + 1]

\* the cache hit and the end of the try block of _process_job
JobCompleted(job) ==
    [job EXCEPT !.status = "completed", !.completed_at = Now, !.returns = @ + 1]

NewLoop == [pc |-> "while", job_id |-> 0]

LiveLoops == {t \in 1..Len(loops) : loops[t].pc # "exited"}

WorkerInit ==
    /\ running = FALSE
    /\ processing_queue = <<>>
    /\ job_status = <<>>
    /\ loops = <<>>
    /\ ever_stopped = FALSE

WorkerIdle == WorkerInit

\* start()
Start ==
    /\ IF ~running
       THEN /\ Len(loops) < MaxLoops
            /\ running' = TRUE
            /\ loops' = Append(loops, NewLoop)
       ELSE UNCHANGED <<running, loops>>
    /\ UNCHANGED <<processing_queue, job_status, ever_stopped>>
    /\ UNCHANGED exceptWorkerVars

\* stop()
Stop ==
    /\ running' = FALSE
    /\ ever_stopped' = TRUE
    /\ UNCHANGED <<processing_queue, job_status, loops>>
    /\ UNCHANGED exceptWorkerVars

\* add_job(job_id, job), job ids handed out in turn
AddJob ==
    /\ Len(job_status) < MaxJobs
    /\ LET job_id == Len(job_status) + 1
       IN  /\ job_status' = Append(job_status, QueuedJob)
           /\ processing_queue' = Append(processing_queue, job_id)
    /\ UNCHANGED <<running, loops, ever_stopped>>
    /\ UNCHANGED exceptWorkerVars

At(t, pc_name) == t \in 1..Len(loops) /\ loops[t].pc = pc_name

Goto(t, pc_name) == loops' = [loops EXCEPT ![t].pc = pc_name]

\* while self.running
LoopWhile(t) ==
    /\ At(t, "while")
    /\ Goto(t, IF running THEN "empty" ELSE "exited")
    /\ UNCHANGED <<running, processing_queue, job_status, ever_stopped>>
    /\ UNCHANGED exceptWorkerVars

\* if not self.processing_queue.empty()
LoopEmpty(t) ==
    /\ At(t, "empty")
    /\ Goto(t, IF processing_queue # <<>> THEN "get" ELSE "sleep")
    /\ UNCHANGED <<running, processing_queue, job_status, ever_stopped>>
    /\ UNCHANGED exceptWorkerVars

\* self.processing_queue.get(timeout=1); queue.Empty when another loop took
\* the job in between
LoopGet(t) ==
    /\ At(t, "get")
    /\ IF processing_queue # <<>>
       THEN /\ loops' = [loops EXCEPT ![t].pc = "process",
                                      ![t].job_id = Head(processing_queue)]
            /\ processing_queue' = Tail(processing_queue)
       ELSE /\ Goto(t, "sleep")
            /\ UNCHANGED processing_queue
    /\ UNCHANGED <<running, job_status, ever_stopped>>
    /\ UNCHANGED exceptWorkerVars

\* _process_job up to the cache test
LoopProcess(t) ==
    /\ At(t, "process")
    /\ IF loops[t].job_id \notin DOMAIN job_status
       THEN /\ Goto(t, "while")
            /\ UNCHANGED job_status
       ELSE /\ Goto(t, "working")
            /\ job_status' = [job_status EXCEPT ![loops[t].job_id] = JobStarted(@)]
    /\ UNCHANGED <<running, processing_queue, ever_stopped>>
    /\ UNCHANGED exceptWorkerVars

\* the rest of _process_job: cache hit or generation, or an exception
LoopFinish(t) ==
    /\ At(t, "working")
    /\ Goto(t, "while")
    /\ \/ job_status' = [job_status EXCEPT ![loops[t].job_id] = JobCompleted(@)]
       \/ job_status' = [job_status EXCEPT ![loops[t].job_id] = JobFailed(@)]
    /\ UNCHANGED <<running, processing_queue, ever_stopped>>
    /\ UNCHANGED exceptWorkerVars

\* time.sleep(1)
LoopSleep(t) ==
    /\ At(t, "sleep")
    /\ Goto(t, "while")
    /\ UNCHANGED <<running, processing_queue, job_status, ever_stopped>>
    /\ UNCHANGED exceptWorkerVars

\* one step of the loop thread t
WorkerLoop(t) ==
    \/ LoopWhile(t)
    \/ LoopEmpty(t)
    \/ LoopGet(t)
    \/ LoopProcess(t)
    \/ LoopFinish(t)
    \/ LoopSleep(t)

\* ------------------------------------------ generate_sub_module_documentation
SubModuleNames == {"s1", "s2"}

\* sub_module_specs: the sub-module names in dict order
SubModuleSpecs ==
    {specs \in SeqsUpTo(SubModuleNames, MaxSubModules) \ {<<>>} :
        \A i, j \in 1..Len(specs) : specs[i] = specs[j] => i = j}

\* value[key]["children"] for every key of the path succeeds
RECURSIVE PathInTree(_, _)
PathInTree(tree, path) ==
    \/ path = <<>>
    \/ /\ Head(path) \in DictKeys(tree)
       /\ PathInTree(tree[DictGet(tree, Head(path))].val.children, Tail(path))

\* value[sub_module_name] = {"components": ..., "children": {}} for each name
RECURSIVE PutSubModules(_, _)
PutSubModules(value, names) ==
    IF names = <<>> THEN value
    ELSE PutSubModules(DictPut(value, Head(names), [children |-> <<>>]), Tail(names))

\* the module tree after the sub-modules were added under the path
RECURSIVE AddSubModules(_, _, _)
AddSubModules(tree, path, names) ==
    IF path = <<>> THEN PutSubModules(tree, names)
    ELSE [k \in 1..Len(tree) |->
             IF tree[k].key = Head(path)
             THEN ModuleEntry(tree[k].key,
                              AddSubModules(tree[k].val.children, Tail(path), names))
             ELSE tree[k]]

NoneFinished == [how |-> "none", entry |-> <<>>, exit |-> <<>>]

Finished(how, frame, deps_now) == [how |-> how, entry |-> frame.entry, exit |-> deps_now]

\* deps after "deps.current_module_name = previous_module_name"
DepsAtReturn(frame) == [deps EXCEPT !.current_module_name = frame.previous_module_name]

SubModuleInit ==
    /\ sub_pc = "agent"
    /\ deps = [path_to_current_module |-> <<"m">>,
               current_depth |-> 1,
               current_module_name |-> "m"]
    /\ deps_module_tree = <<ModuleEntry("m", <<>>)>>
    /\ sub_frames = <<>>
    /\ sub_last = NoneFinished

SubModuleIdle ==
    /\ sub_pc = "idle"
    /\ deps = <<>>
    /\ deps_module_tree = <<>>
    /\ sub_frames = <<>>
    /\ sub_last = NoneFinished

\* the agent running now was given the tool (the agent of module m always)
AgentHasTool == IF sub_frames = <<>> THEN TRUE ELSE Last(sub_frames).has_tool

\* an agent that has the tool calls generate_sub_module_documentation: the
\* function up to its second loop
CallTool ==
    \E sub_module_specs \in SubModuleSpecs :
        /\ sub_pc = "agent"
        /\ AgentHasTool
        /\ LET frame == [previous_module_name |-> deps.current_module_name,
                         specs |-> sub_module_specs,
                         idx |-> 1,
                         has_tool |-> FALSE,
                         entry |-> deps]
           IN  IF PathInTree(deps_module_tree, deps.path_to_current_module)
               THEN /\ deps_module_tree' = AddSubModules(deps_module_tree,
                                               deps.path_to_current_module, sub_module_specs)
                    /\ sub_frames' = Append(sub_frames, frame)
                    /\ sub_pc' = "loop"
                    /\ UNCHANGED sub_last
               ELSE \* KeyError
                    /\ sub_last' = Finished("raised", frame, deps)
                    /\ sub_frames' = <<>>
                    /\ sub_pc' = "raised"
                    /\ UNCHANGED deps_module_tree
        /\ UNCHANGED deps
        /\ UNCHANGED exceptSubModuleVars

\* one iteration up to "await sub_agent.run": the sub-agent gets the tool
\* only below max_depth, and then only for a complex module
RunSubAgent ==
    /\ sub_pc = "loop"
    /\ Last(sub_frames).idx <= Len(Last(sub_frames).specs)
    /\ LET frame == Last(sub_frames)
           sub_module_name == frame.specs[frame.idx]
       IN  /\ \E has_tool \in (IF deps.current_depth < MaxDepth THEN BOOLEAN ELSE {FALSE}) :
                 sub_frames' = [sub_frames EXCEPT ![Len(sub_frames)].has_tool = has_tool]
           /\ deps' = [current_module_name |-> sub_module_name,
                       path_to_current_module |->
                           Append(deps.path_to_current_module, sub_module_name),
                       current_depth |-> deps.current_depth + 1]
    /\ sub_pc' = "agent"
    /\ UNCHANGED <<deps_module_tree, sub_last>>
    /\ UNCHANGED exceptSubModuleVars

\* sub_agent.run returns: the rest of the iteration
SubAgentReturns ==
    /\ sub_pc = "agent"
    /\ sub_frames # <<>>
    /\ deps' = [deps EXCEPT
                   !.path_to_current_module = SubSeq(@, 1, Len(@) - 1),
                   !.current_depth = @ - 1]
    /\ sub_frames' = [sub_frames EXCEPT ![Len(sub_frames)].idx = @ + 1]
    /\ sub_pc' = "loop"
    /\ UNCHANGED <<deps_module_tree, sub_last>>
    /\ UNCHANGED exceptSubModuleVars

\* sub_agent.run raises: the exception leaves every call in progress
SubAgentRaises ==
    /\ sub_pc = "agent"
    /\ sub_frames # <<>>
    /\ sub_last' = Finished("raised", Last(sub_frames), deps)
    /\ sub_frames' = <<>>
    /\ sub_pc' = "raised"
    /\ UNCHANGED <<deps, deps_module_tree>>
    /\ UNCHANGED exceptSubModuleVars

\* after the loop: the module name is restored and the call returns to the
\* agent that made it
ReturnFromTool ==
    /\ sub_pc = "loop"
    /\ Last(sub_frames).idx > Len(Last(sub_frames).specs)
    /\ deps' = DepsAtReturn(Last(sub_frames))
    /\ sub_last' = Finished("returned", Last(sub_frames), deps')
    /\ sub_frames' = SubSeq(sub_frames, 1, Len(sub_frames) - 1)
    /\ sub_pc' = "agent"
    /\ UNCHANGED deps_module_tree
    /\ UNCHANGED exceptSubModuleVars

\* ------------------------------------------------------------ Configuration
\* Optional values of AgentInstructions: None, a list of strings or a string
PyNone == [type |-> "None", val |-> <<>>]

PyList(items) == [type |-> "list", val |-> items]

PyStr(text) == [type |-> "str", val |-> <<text>>]

\* the truth value Python gives the value
Truthy(v) ==
    CASE v.type = "None" -> FALSE
      [] v.type = "list" -> v.val # <<>>
      [] v.type = "str" -> v.val # <<"">>

InstructionKeys ==
    {"include_patterns", "exclude_patterns", "focus_modules", "doc_type", "custom_instructions"}

AgentInstructionsValues ==
    [include_patterns : {PyNone, PyList(<<>>), PyList(<<"*.py">>)},
     exclude_patterns : {PyNone, PyList(<<"*Tests*">>)},
     focus_modules : {PyNone, PyList(<<"src/core">>)},
     doc_type : {PyNone, PyStr(""), PyStr("api")},
     custom_instructions : {PyNone, PyStr("be brief")}]

\* AgentInstructions()
DefaultAgentInstructions == [k \in InstructionKeys |-> PyNone]

Configurations ==
    [base_url : {"", "https://api.example.com/v1"},
     main_model : {"", "model-a"},
     cluster_model : {"", "model-b"},
     fallback_model : {"glm-4p5", "model-c"},
     default_output : {"docs", "out"},
     max_tokens : {32768, 1000},
     max_token_per_module : {36369, 2000},
     max_token_per_leaf_module : {16000, 3000},
     agent_instructions : AgentInstructionsValues]

\* AgentInstructions.to_dict: only the keys whose value is truthy
AgentInstructionsToDict(a) == [k \in {key \in InstructionKeys : Truthy(a[key])} |-> a[k]]

\* data.get(key, default)
Get(data, key, default) == IF key \in DOMAIN data THEN data[key] ELSE default

\* AgentInstructions.from_dict
AgentInstructionsFromDict(data) == [k \in InstructionKeys |-> Get(data, k, PyNone)]

\* AgentInstructions.is_empty
is_empty(a) == \A k \in InstructionKeys : ~Truthy(a[k])

\* Configuration.to_dict
to_dict(c) ==
    LET as_dict == [base_url |-> c.base_url,
                    main_model |-> c.main_model,
                    cluster_model |-> c.cluster_model,
                    default_output |-> c.default_output,
                    max_tokens |-> c.max_tokens,
                    max_token_per_module |-> c.max_token_per_module,
                    max_token_per_leaf_module |-> c.max_token_per_leaf_module]
    IN  IF ~is_empty(c.agent_instructions)
        THEN as_dict @@ [agent_instructions |-> AgentInstructionsToDict(c.agent_instructions)]
        ELSE as_dict

\* Configuration.from_dict
from_dict(data) ==
    [base_url |-> Get(data, "base_url", ""),
     main_model |-> Get(data, "main_model", ""),
     cluster_model |-> Get(data, "cluster_model", ""),
     fallback_model |-> Get(data, "fallback_model", "glm-4p5"),
     default_output |-> Get(data, "default_output", "docs"),
     max_tokens |-> Get(data, "max_tokens", 32768),
     max_token_per_module |-> Get(data, "max_token_per_module", 36369),
     max_token_per_leaf_module |-> Get(data, "max_token_per_leaf_module", 16000),
     agent_instructions |->
         IF "agent_instructions" \in DOMAIN data
         THEN AgentInstructionsFromDict(data.agent_instructions)
         ELSE DefaultAgentInstructions]

CONFIG_VERSION == "1.0"

\* json.dumps(config_data, indent=2) written to the config file
JsonDumps(value) == [json |-> value]

ConfigInit ==
    /\ cfg_pc = "start"
    /\ config \in Configurations
    /\ config_data = <<>>
    /\ loaded_config = <<>>

ConfigIdle ==
    /\ cfg_pc = "idle"
    /\ config = <<>>
    /\ config_data = <<>>
    /\ loaded_config = <<>>

\* c.to_dict()
ToDict ==
    /\ cfg_pc = "start"
    /\ config_data' = to_dict(config)
    /\ cfg_pc' = "dict"
    /\ UNCHANGED <<config, loaded_config>>
    /\ UNCHANGED exceptConfigVars

\* Configuration.from_dict(c.to_dict())
FromDict ==
    /\ cfg_pc = "dict"
    /\ loaded_config' = from_dict(config_data)
    /\ cfg_pc' = "from_dict"
    /\ UNCHANGED <<config, config_data>>
    /\ UNCHANGED exceptConfigVars

\* ConfigManager.save() of a manager holding c, no field given
Save ==
    /\ cfg_pc = "start"
    /\ config_data' = JsonDumps([version |-> CONFIG_VERSION] @@ to_dict(config))
    /\ cfg_pc' = "saved"
    /\ UNCHANGED <<config, loaded_config>>
    /\ UNCHANGED exceptConfigVars

\* ConfigManager.load() of a new manager
Load ==
    /\ cfg_pc = "saved"
    /\ loaded_config' = from_dict(JsonLoads(config_data))
    /\ cfg_pc' = "loaded"
    /\ UNCHANGED <<config, config_data>>
    /\ UNCHANGED exceptConfigVars

\* ------------------------------------------- subsystems at rest
CoreIdle == CGInit /\ code_files = <<>> /\ LeafIdle /\ TreeIdle

ExtIdle == DispatchIdle /\ ModelIdle /\ EditorIdle /\ DocsIdle /\ WorkerIdle /\ SubModuleIdle /\ ConfigIdle

IdleExceptDispatch == CoreIdle /\ ModelIdle /\ EditorIdle /\ DocsIdle /\ WorkerIdle /\ SubModuleIdle /\ ConfigIdle

IdleExceptModel == CoreIdle /\ DispatchIdle /\ EditorIdle /\ DocsIdle /\ WorkerIdle /\ SubModuleIdle /\ ConfigIdle

IdleExceptEditor == CoreIdle /\ DispatchIdle /\ ModelIdle /\ DocsIdle /\ WorkerIdle /\ SubModuleIdle /\ ConfigIdle

IdleExceptDocs == CoreIdle /\ DispatchIdle /\ ModelIdle /\ EditorIdle /\ WorkerIdle /\ SubModuleIdle /\ ConfigIdle

IdleExceptWorker == CoreIdle /\ DispatchIdle /\ ModelIdle /\ EditorIdle /\ DocsIdle /\ SubModuleIdle /\ ConfigIdle

IdleExceptSubModule == CoreIdle /\ DispatchIdle /\ ModelIdle /\ EditorIdle /\ DocsIdle /\ WorkerIdle /\ ConfigIdle

IdleExceptConfig == CoreIdle /\ DispatchIdle /\ ModelIdle /\ EditorIdle /\ DocsIdle /\ WorkerIdle /\ SubModuleIdle

\* the pipeline, for any file list
Init == CGInit /\ code_files \in FileLists /\ LeafIdle /\ TreeIdle /\ ExtIdle

Next ==
    \/ AnalyzeCodeFilesBegin
    \/ AnalyzeCodeFile
    \/ AnalyzeCodeFilesEnd
    \/ BuildComponents

Spec == Init /\ [][Next]_vars

\* the pipeline, for the lists of files that declare the same name
InitClash == CGInit /\ code_files \in ClashLists /\ LeafIdle /\ TreeIdle /\ ExtIdle

SpecClash == InitClash /\ [][Next]_vars

\* the pipeline, for the lists that hold a file without an analyzer
InitNoAnalyzer == CGInit /\ code_files \in NoAnalyzerLists /\ LeafIdle /\ TreeIdle /\ ExtIdle

SpecNoAnalyzer == InitNoAnalyzer /\ [][Next]_vars

\* leaf selection of build_dependency_graph, for any registry
InitLeaf == CGInit /\ code_files = <<>> /\ LeafInit /\ TreeIdle /\ ExtIdle

NextLeaf ==
    \/ GetLeafNodes
    \/ SelectLeafNodes

SpecLeaf == InitLeaf /\ [][NextLeaf]_vars

\* the repository scan, for any repository and any pattern arguments
InitTree == CGInit /\ code_files = <<>> /\ LeafIdle /\ TreeInit /\ ExtIdle

\* the repository scan run twice, for the repositories of up to
\* MaxRescanEntries entries
InitRescan ==
    InitTree /\ Cardinality(repo.entries) <= MaxRescanEntries /\ has_is_relative_to

NextRescan ==
    \/ RepoAnalyzerInit
    \/ AnalyzeRepositoryStructure
    \/ AnalyzeRepositoryStructureAgain
    \/ ListingOrderChanges

SpecRescan == InitRescan /\ [][NextRescan]_vars

NextTree ==
    \/ RepoAnalyzerInit
    \/ AnalyzeRepositoryStructure

SpecTree == InitTree /\ [][NextTree]_vars

\* the routing of a file tree, for any list of file entries
InitDispatch == IdleExceptDispatch /\ DispatchInit

NextDispatch ==
    \/ ExtractCodeFilesStep
    \/ RouteCodeFiles

SpecDispatch == InitDispatch /\ [][NextDispatch]_vars

\* get_model, for any model name
InitModel == IdleExceptModel /\ ModelInit

NextModel ==
    \/ GetModel
    \/ GetModelAgain

SpecModel == InitModel /\ [][NextModel]_vars

\* calls of str_replace_editor on the docs directory sharing one registry
InitEditor == IdleExceptEditor /\ EditorInit

NextEditor ==
    \/ EditorCreate
    \/ EditorStrReplace
    \/ EditorInsert
    \/ EditorUndoEdit

SpecEditor == InitEditor /\ [][NextEditor]_vars

\* generate_module_documentation on the module tree run has just saved
InitDocs == IdleExceptDocs /\ DocsInit

NextDocs ==
    \/ GetProcessingOrder
    \/ ProcessModule
    \/ GenerateRepoOverview
    \/ ProcessWholeRepo

SpecDocs == InitDocs /\ [][NextDocs]_vars

\* one BackgroundWorker: start, stop and add_job called from outside, the
\* loop threads running beside them
InitWorker == IdleExceptWorker /\ WorkerInit

NextWorker ==
    \/ Start
    \/ Stop
    \/ AddJob
    \/ \E t \in LoopIds : WorkerLoop(t)

SpecWorker == InitWorker /\ [][NextWorker]_vars

\* the same with every loop thread scheduled again and again
SpecWorkerFair == SpecWorker /\ \A t \in LoopIds : WF_vars(WorkerLoop(t))

\* the agent of module m and the sub-agents its tool calls start
InitSubModule == IdleExceptSubModule /\ SubModuleInit

NextSubModule ==
    \/ CallTool
    \/ RunSubAgent
    \/ SubAgentReturns
    \/ SubAgentRaises
    \/ ReturnFromTool

SpecSubModule == InitSubModule /\ [][NextSubModule]_vars

\* a Configuration taken through to_dict/from_dict or through save/load
InitConfig == IdleExceptConfig /\ ConfigInit

NextConfig ==
    \/ ToDict
    \/ FromDict
    \/ Save
    \/ Load

SpecConfig == InitConfig /\ [][NextConfig]_vars

\* ------------------------------------------------------------- properties
Returned == pc \in {"returned", "built"}

\* C1: after analyze_code_files returns, every relationship with
\* is_resolved = TRUE has a callee that is a key of the node registry,
\* edges pre-marked by an analyzer included.
C1_ResolvedCalleeInRegistry ==
    Returned =>
        \A k \in 1..Len(call_relationships) :
            call_relationships[k].is_resolved =>
                call_relationships[k].callee \in DictKeys(functions)

\* C2: after every call of analyze_code_files, a repeated call on the same
\* instance included, no two returned relationships share (caller, callee).
C2_NoDuplicatePairs ==
    Returned =>
        \A j, k \in 1..Len(result.relationships) :
            (/\ result.relationships[j].caller = result.relationships[k].caller
             /\ result.relationships[j].callee = result.relationships[k].callee)
            => j = k

C2_Witness ==
    /\ pc = "returned"
    /\ runs = 2
    /\ Len(merged) > Len(result.relationships)
    /\ Len(result.relationships) > 1

\* C3: no node's depends_on contains the node's own id.
C3_NoSelfDependency ==
    pc = "built" =>
        \A k \in 1..Len(components) :
            components[k].key \notin components[k].val.depends_on

\* C4: an element of a node's depends_on is always the callee of a resolved
\* relationship whose caller is that node and whose callee is a registry id;
\* unresolved relationships add nothing.
C4_DependsOnOnlyFromResolved ==
    pc = "built" =>
        \A k \in 1..Len(components) :
            \A d \in components[k].val.depends_on :
                \E j \in 1..Len(result.relationships) :
                    /\ result.relationships[j].is_resolved
                    /\ result.relationships[j].caller = components[k].key
                    /\ result.relationships[j].callee = d
                    /\ d \in DictKeys(components)

C4_Witness ==
    /\ pc = "built"
    /\ \E k \in 1..Len(components) : components[k].val.depends_on # {}
    /\ \E j \in 1..Len(result.relationships) :
          /\ ~result.relationships[j].is_resolved
          /\ result.relationships[j].caller \in DictKeys(components)
          /\ components[DictGet(components, result.relationships[j].caller)].val.depends_on # {}

\* C5: a file whose analysis failed contributes no nodes and no
\* relationships to the merged result.
C5_FailedFileContributesNothing ==
    \A k \in 1..Len(contrib) :
        contrib[k].failed => (contrib[k].nodes = <<>> /\ contrib[k].rels = <<>>)

\* C6: an exception while reading or analyzing one file never leaves
\* analyze_code_files: every file of the list is attempted and a result is
\* returned.
C6_ScanNeverAborts ==
    /\ pc # "raised"
    /\ Returned => (/\ result.files_analyzed = Len(code_files)
                    /\ Len(contrib) = Len(code_files))

C6_Witness ==
    /\ pc = "returned"
    /\ \E j, k \in 1..Len(contrib) :
          /\ j < k
          /\ contrib[j].handler = "outer"
          /\ contrib[k].nodes # <<>>

LeafDone == leaf_pc = "done"

HasStructural == AvailableTypes(graph_components) \cap StructuralTypes # {}

IsFunctionComponent(id) ==
    id \in DOMAIN graph_components /\ graph_components[id] = "function"

\* C7: with no class, interface or struct in the registry, the function
\* components the graph algorithm returned (and the identifier screen lets
\* through) are leaves; with any class, interface or struct in the registry
\* no function is a leaf.
C7_LeafSelectionByType ==
    LeafDone =>
        /\ ~HasStructural =>
              \A k \in 1..Len(leaf_nodes) :
                  (IsFunctionComponent(leaf_nodes[k]) /\ ~IsInvalidIdentifier(leaf_nodes[k]))
                  => leaf_nodes[k] \in Range(keep_leaf_nodes)
        /\ HasStructural =>
              \A k \in 1..Len(keep_leaf_nodes) : ~IsFunctionComponent(keep_leaf_nodes[k])

C7_Witness ==
    /\ LeafDone
    /\ HasStructural
    /\ \E k \in 1..Len(leaf_nodes) : IsFunctionComponent(leaf_nodes[k])
    /\ keep_leaf_nodes # <<>>

C7_WitnessFallback ==
    /\ LeafDone
    /\ ~HasStructural
    /\ \E k \in 1..Len(keep_leaf_nodes) : IsFunctionComponent(keep_leaf_nodes[k])

\* C8: the returned leaf list holds no identifier that is absent from the
\* registry, blank, or contains error / exception / failed / invalid in any
\* letter case; the other leaves of an admitted type are all returned.
C8_NoContaminatedLeaf ==
    LeafDone =>
        /\ \A k \in 1..Len(keep_leaf_nodes) :
              /\ keep_leaf_nodes[k] \in DOMAIN graph_components
              /\ ~IsBlank(keep_leaf_nodes[k])
              /\ \A kw \in ErrKeywords : ~Contains(Lower(keep_leaf_nodes[k]), kw)
        /\ \A k \in 1..Len(leaf_nodes) :
              (/\ leaf_nodes[k] \in DOMAIN graph_components
               /\ graph_components[leaf_nodes[k]] \in ValidTypes(graph_components)
               /\ ~IsBlank(leaf_nodes[k])
               /\ \A kw \in ErrKeywords : ~Contains(Lower(leaf_nodes[k]), kw))
              => leaf_nodes[k] \in Range(keep_leaf_nodes)

C8_Witness ==
    /\ LeafDone
    /\ Len(leaf_nodes) = 2
    /\ Len(keep_leaf_nodes) = 1
    /\ \E k \in 1..2 :
          /\ leaf_nodes[k] \in DOMAIN graph_components
          /\ graph_components[leaf_nodes[k]] \in ValidTypes(graph_components)
          /\ HasErrKeyword(leaf_nodes[k])

TreeDone == tree_pc \in {"returned", "raised"}

\* every entry of the file system below an entry, with its relative path;
\* escaped: it is, or is reached through, a symlink whose target lies outside
\* the root
RECURSIVE Walk(_, _, _)
Walk(entry, relative_path_str, through) ==
    LET escaped == through \/ (entry.is_symlink /\ ~IsRelativeTo(entry.target, BaseResolved))
    IN  {[path |-> relative_path_str, name |-> entry.name, kind |-> entry.kind,
          is_symlink |-> entry.is_symlink, escaped |-> escaped]}
        \cup UNION {Walk(c, JoinPath(relative_path_str, c.name), escaped) : c \in entry.entries}

RepoEntries == Walk(repo, Dot, FALSE)

\* the paths of the entries of a file tree
RECURSIVE TreePaths(_)
TreePaths(tree) ==
    IF tree = NoTree THEN {}
    ELSE IF tree.type = "file" THEN {tree.path}
    ELSE {tree.path} \cup UNION {TreePaths(tree.children[k]) : k \in 1..Len(tree.children)}

\* the names of the files of a file tree
RECURSIVE TreeFiles(_)
TreeFiles(tree) ==
    IF tree = NoTree THEN {}
    ELSE IF tree.type = "file" THEN {tree.path}
    ELSE UNION {TreeFiles(tree.children[k]) : k \in 1..Len(tree.children)}

\* glob match of the relative path or the basename against some pattern
MatchesSome(patterns, f) ==
    \E k \in 1..Len(patterns) : FnMatch(f.path, patterns[k]) \/ FnMatch(f.name, patterns[k])

\* a file matches an include pattern and an exclude pattern
MatchesBoth(f) ==
    /\ f.kind = "file"
    /\ MatchesSome(include_patterns, f)
    /\ (MatchesSome(exclude_patterns, f) \/ ShouldExcludePath(f.path, f.name))

\* C9: once the file tree is built, a file that matches an include pattern
\* and also matches an exclude pattern (default or user-supplied) is not in
\* the file tree.
C9_ExcludeDominatesInclude ==
    TreeDone => \A f \in RepoEntries : MatchesBoth(f) => f.path \notin TreePaths(file_tree)

\* a tree was returned with a file in it, for a repository that holds at top
\* level a regular file matching a default exclude pattern and an include
\* pattern, and one matching a user-supplied exclude pattern and an include
\* pattern
C9_Witness ==
    /\ tree_pc = "returned"
    /\ TreeFiles(file_tree) # {}
    /\ exclude_arg.given
    /\ \E f \in RepoEntries :
          /\ MatchesBoth(f) /\ ~f.is_symlink /\ f.path = f.name
          /\ MatchesSome(DEFAULT_IGNORE_PATTERNS, f)
    /\ \E f \in RepoEntries :
          /\ MatchesBoth(f) /\ ~f.is_symlink /\ f.path = f.name
          /\ ~MatchesSome(DEFAULT_IGNORE_PATTERNS, f)
          /\ MatchesSome(exclude_arg.patterns, f)

\* C10: once the file tree is built, no symlink whose target lies outside
\* the root is in the file tree, and neither is any entry reached through
\* such a symlink.
C10_NoEscapingSymlink ==
    TreeDone => \A f \in RepoEntries : f.escaped => f.path \notin TreePaths(file_tree)

\* a tree was returned with a file in it, for a repository that holds a
\* symlink to a file outside the root and a symlink to a directory outside
\* the root, whose file passes the include and exclude tests
C10_Witness ==
    /\ tree_pc = "returned"
    /\ TreeFiles(file_tree) # {}
    /\ \E f \in RepoEntries : f.escaped /\ f.is_symlink /\ f.kind = "file"
    /\ \E f \in RepoEntries :
          /\ f.escaped /\ ~f.is_symlink /\ f.kind = "file"
          /\ ~FilteredOut(f.path, f.name, TRUE)

\* C11: after analyze_code_files returns, every edge whose raw callee string
\* is the id of a registry node has been resolved to that node.
C11_FullIdPrecedence ==
    Returned =>
        \A k \in 1..Len(merged) :
            merged[k].callee \in DictKeys(functions) =>
                (resolved_rels[k].is_resolved /\ resolved_rels[k].callee = merged[k].callee)

\* the nodes in the order in which the merge step wrote them to the registry
Registrations == Flatten([k \in 1..Len(contrib) |-> contrib[k].nodes])

\* the registry holds two nodes of different files with this bare name
AmbiguousName(n) ==
    \E i, j \in 1..Len(functions) :
        /\ functions[i].val.name = n
        /\ functions[j].val.name = n
        /\ functions[i].val.file_path # functions[j].val.file_path

\* the id under which the last node of this name was registered
LastRegistered(n) ==
    FuncId(Registrations[CHOOSE j \in 1..Len(Registrations) :
                            /\ Registrations[j].name = n
                            /\ \A i \in (j + 1)..Len(Registrations) :
                                  Registrations[i].name # n])

\* C12: after analyze_code_files returns, an edge whose raw callee is a bare
\* name that two registry nodes of different files share has been resolved
\* (is_resolved = TRUE) to the one of them that was registered last.
C12_LastRegisteredWins ==
    Returned =>
        \A k \in 1..Len(merged) :
            (Len(merged[k].callee) = 1 /\ AmbiguousName(merged[k].callee)) =>
                /\ resolved_rels[k].is_resolved
                /\ resolved_rels[k].callee = LastRegistered(merged[k].callee)


\* the regular files the walk reaches through readable directories that are
\* neither symlinks nor excluded, and that no exclude pattern matches
RECURSIVE PlainFiles(_, _)
PlainFiles(entry, relative_path_str) ==
    IF entry.is_symlink \/ ShouldExcludePath(relative_path_str, entry.name) THEN {}
    ELSE IF entry.kind = "file" THEN {relative_path_str}
    ELSE IF entry.kind = "dir" /\ entry.readable
    THEN UNION {PlainFiles(c, JoinPath(relative_path_str, c.name)) : c \in entry.entries}
    ELSE {}

NoIncludeSupplied == ~include_arg.given \/ include_arg.patterns = <<>>

\* C13: once a file tree is returned by an analyzer constructed with no
\* include patterns (None or an empty list), every regular file that is not
\* excluded is in the file tree, whatever its extension.
C13_NoIncludeKeepsEveryFile ==
    (tree_pc = "returned" /\ NoIncludeSupplied) =>
        PlainFiles(repo, Dot) \subseteq TreeFiles(file_tree)

\* the files among them that a default include pattern matches
DefaultIncluded ==
    {f.path : f \in {g \in RepoEntries : /\ g.path \in PlainFiles(repo, Dot)
                                          /\ MatchesSome(DEFAULT_INCLUDE_PATTERNS, g)}}

\* C13 (amended): an empty include list keeps exactly the regular files
\* that are not excluded, whatever their extension; with no list at all
\* (None) the default include patterns apply, and exactly the files among
\* them that a default include pattern matches are kept.
C13_EmptyListKeepsEveryFile ==
    tree_pc = "returned" =>
        /\ include_arg = Given(<<>>) => TreeFiles(file_tree) = PlainFiles(repo, Dot)
        /\ ~include_arg.given => TreeFiles(file_tree) = DefaultIncluded

\* a tree returned for an empty include list holds a top-level file and a
\* nested file that no default include pattern matches, while an excluded
\* file of the repository is left out
C13_Witness ==
    /\ tree_pc = "returned"
    /\ include_arg = Given(<<>>)
    /\ \E f \in RepoEntries :
          /\ f.path \in TreeFiles(file_tree) /\ f.path = f.name
          /\ ~MatchesSome(DEFAULT_INCLUDE_PATTERNS, f)
    /\ \E f \in RepoEntries : f.path \in TreeFiles(file_tree) /\ f.path # f.name
    /\ \E f \in RepoEntries :
          f.kind = "file" /\ ~f.is_symlink /\ f.path \notin TreeFiles(file_tree)


\* the directory entries of a file tree
RECURSIVE TreeDirs(_)
TreeDirs(tree) ==
    IF tree = NoTree \/ tree.type = "file" THEN {}
    ELSE {tree} \cup UNION {TreeDirs(tree.children[k]) : k \in 1..Len(tree.children)}

\* a tree was returned, its top entry is the root directory, and no other
\* directory entry has an empty children list
RootKeptNoEmptyDirs ==
    /\ tree_pc = "returned"
    /\ file_tree # NoTree
    /\ file_tree.type = "directory"
    /\ file_tree.name = repo.name
    /\ file_tree.path = Dot
    /\ \A d \in TreeDirs(file_tree) : d.children = <<>> => d.path = Dot

\* C14: for any readable root directory, whatever its own name,
\* analyze_repository_structure returns a tree whose top entry is that root
\* directory (possibly with no children), and no other directory entry has
\* an empty children list.
C14_RootKeptWhateverItsName ==
    TreeDone => RootKeptNoEmptyDirs

\* the same for a root directory whose name no exclude pattern matches
C14_RootKeptUnlessExcluded ==
    (TreeDone /\ ~ShouldExcludePath(Dot, repo.name)) => RootKeptNoEmptyDirs


\* the positions of the code files whose language has no analyzer
NoAnalyzerFiles ==
    {k \in 1..Len(code_files) : code_files[k].language \notin AnalyzerLanguages}

\* C15: a code file whose language has no analyzer is skipped without
\* raising: the call returns, the file contributes no nodes and no edges,
\* it is counted in unsupported_files and not in files_analyzed.
C15_NoAnalyzerCountedUnsupported ==
    /\ pc = "raised" => supported_files[file_idx].language \in AnalyzerLanguages
    /\ Returned =>
          /\ \A k \in 1..Len(result.functions) :
                \A j \in NoAnalyzerFiles :
                    result.functions[k].file_path # FilePath(code_files[j])
          /\ result.unsupported_files = Cardinality(NoAnalyzerFiles)
          /\ result.files_analyzed = Len(code_files) - Cardinality(NoAnalyzerFiles)

\* the same for the languages the filter leaves out
C15_FilteredCountedUnsupported ==
    LET filtered == {k \in 1..Len(code_files) :
                        code_files[k].language \notin SupportedLanguages}
    IN  Returned =>
          /\ \A k \in 1..Len(result.functions) :
                \A j \in NoAnalyzerFiles :
                    result.functions[k].file_path # FilePath(code_files[j])
          /\ result.unsupported_files = Cardinality(filtered)
          /\ result.files_analyzed = Len(code_files) - Cardinality(filtered)


\* the positions, in the resolved edge list, of the first edge of each
\* (caller, callee) pair
FirstOccurrences ==
    {k \in 1..Len(resolved_rels) :
        \A j \in 1..(k - 1) :
            \/ resolved_rels[j].caller # resolved_rels[k].caller
            \/ resolved_rels[j].callee # resolved_rels[k].callee}

\* the i-th of them, in increasing order
NthFirstOccurrence(i) ==
    CHOOSE k \in FirstOccurrences : Cardinality({j \in FirstOccurrences : j <= k}) = i

\* C16: deduplication keeps, for each (caller, callee) pair, the edge that
\* comes first in the resolved edge list, with its call_line, and the kept
\* edges are in the order they had in that list.
C16_DedupKeepsFirstInOrder ==
    Returned =>
        /\ Len(result.relationships) = Cardinality(FirstOccurrences)
        /\ \A i \in 1..Len(result.relationships) :
              result.relationships[i] = resolved_rels[NthFirstOccurrence(i)]

\* two edges of one pair with different call lines were merged, the later
\* one was dropped, and an edge of another pair comes after them
C16_Witness ==
    /\ pc = "returned"
    /\ Len(result.relationships) > 1
    /\ \E j, k \in 1..Len(resolved_rels) :
          /\ j < k
          /\ resolved_rels[j].caller = resolved_rels[k].caller
          /\ resolved_rels[j].callee = resolved_rels[k].callee
          /\ resolved_rels[j].call_line # resolved_rels[k].call_line
          /\ \E n \in (k + 1)..Len(resolved_rels) : n \in FirstOccurrences


\* the ids under which nodes were registered during the loop
RegisteredIds == {FuncId(Registrations[k]) : k \in 1..Len(Registrations)}

\* the last node registered under an id
LastNodeOf(id) ==
    Registrations[CHOOSE j \in 1..Len(Registrations) :
                     /\ FuncId(Registrations[j]) = id
                     /\ \A i \in (j + 1)..Len(Registrations) : FuncId(Registrations[i]) # id]

\* C17: after analyze_code_files returns, the registry holds exactly one
\* node per distinct id registered, that node is the one registered last
\* under the id (for an id produced by several files, the node of the file
\* last in analysis order), and total_functions is the number of distinct
\* ids.
C17_OneNodePerIdLastWins ==
    Returned =>
        /\ \A i, j \in 1..Len(functions) : functions[i].key = functions[j].key => i = j
        /\ DictKeys(functions) = RegisteredIds
        /\ \A k \in 1..Len(functions) : functions[k].val = LastNodeOf(functions[k].key)
        /\ result.total_functions = Cardinality(RegisteredIds)
        /\ Len(result.functions) = Cardinality(RegisteredIds)

\* two files registered different nodes under one id, and the registry
\* holds another id as well
C17_Witness ==
    /\ pc = "returned"
    /\ Len(functions) > 1
    /\ \E i, j \in 1..Len(Registrations) :
          /\ i < j
          /\ FuncId(Registrations[i]) = FuncId(Registrations[j])
          /\ Registrations[i].file_path # Registrations[j].file_path
          /\ Registrations[i] # Registrations[j]
          /\ \A n \in (j + 1)..Len(Registrations) :
                FuncId(Registrations[n]) # FuncId(Registrations[j])


\* the keys of func_lookup: ids, names, component_ids and the last segment
\* of each component_id
LookupKeys ==
    DictKeys(functions)
    \cup {functions[k].val.name : k \in 1..Len(functions)}
    \cup {functions[k].val.component_id : k \in 1..Len(functions)}
    \cup {<<Last(functions[k].val.component_id)>> :
             k \in {j \in 1..Len(functions) : functions[j].val.component_id # <<>>}}

\* the callee string, or its text after the last '.', is a lookup key
HitsLookup(r) == r.callee \in LookupKeys \/ <<Last(r.callee)>> \in LookupKeys

\* C18: the resolution pass keeps the number and order of the edges and
\* every edge's caller and call_line; an edge whose callee string is not a
\* lookup key, and whose text after the last '.' is not one either, is left
\* as it was, raw callee included; the registry is the one the merge built.
C18_ResolutionChangesOnlyHits ==
    Returned =>
        /\ Len(resolved_rels) = Len(merged)
        /\ \A k \in 1..Len(merged) :
              /\ resolved_rels[k].caller = merged[k].caller
              /\ resolved_rels[k].call_line = merged[k].call_line
              /\ [resolved_rels[k] EXCEPT !.callee = merged[k].callee,
                                          !.is_resolved = merged[k].is_resolved] = merged[k]
              /\ ~HitsLookup(merged[k]) => resolved_rels[k] = merged[k]
        /\ functions = MergeFunctions(<<>>, Registrations)

\* the pass rewrote the callee of one edge and left another edge, which
\* misses the lookup, as it was; some dotted callee is not a key and hits
\* the lookup through its last segment
C18_Witness ==
    /\ pc = "returned"
    /\ functions # <<>>
    /\ \E k \in 1..Len(merged) :
          /\ Len(merged[k].callee) > 1
          /\ merged[k].callee \notin LookupKeys
          /\ HitsLookup(merged[k])
    /\ \E j, k \in 1..Len(merged) :
          /\ HitsLookup(merged[j])
          /\ resolved_rels[j].callee # merged[j].callee
          /\ resolved_rels[j].is_resolved
          /\ ~HitsLookup(merged[k])
          /\ resolved_rels[k] = merged[k]


\* C19: a second analyze_repository_structure on the same instance and the
\* unchanged directory returns a tree equal to the first one, children in
\* the same order, whatever the order in which the OS lists the entries.
C19_RescanGivesSameTree ==
    tree_pc = "rescanned" => file_tree = prev_tree

\* the directory was scanned twice, the OS listing it in ascending order the
\* first time and in descending order the second time, and the tree holds
\* two children of the root, a non-empty directory among them
C19_Witness ==
    /\ tree_pc = "rescanned"
    /\ scan_orders = <<"ascending", "descending">>
    /\ Len(file_tree.children) > 1
    /\ \E k \in 1..Len(file_tree.children) :
          /\ file_tree.children[k].type = "directory"
          /\ file_tree.children[k].children # <<>>


\* the node elements and the edge elements of the returned graph
VizNodes == SelectSeq(result.visualization.elements, LAMBDA e : e.group = "node")

VizEdges == SelectSeq(result.visualization.elements, LAMBDA e : e.group = "edge")

\* the positions of the returned relationships with is_resolved
ResolvedPositions ==
    {k \in 1..Len(result.relationships) : result.relationships[k].is_resolved}

\* C20: the returned graph has one node element per registry entry, one
\* edge element per returned relationship with is_resolved = TRUE and none
\* for a relationship with is_resolved = FALSE, and its summary satisfies
\* total_edges + unresolved_calls = total_calls.
C20_GraphMatchesRegistryAndResolvedEdges ==
    Returned =>
        /\ Len(VizNodes) = Len(functions)
        /\ \A k \in 1..Len(functions) : VizNodes[k].id = functions[k].key
        /\ Len(VizEdges) = Cardinality(ResolvedPositions)
        /\ \A k \in ResolvedPositions :
              Cardinality({j \in 1..Len(VizEdges) :
                              /\ VizEdges[j].source = result.relationships[k].caller
                              /\ VizEdges[j].target = result.relationships[k].callee
                              /\ VizEdges[j].line = result.relationships[k].call_line}) = 1
        /\ \A k \in (1..Len(result.relationships)) \ ResolvedPositions :
              \A j \in 1..Len(VizEdges) :
                  \/ VizEdges[j].source # result.relationships[k].caller
                  \/ VizEdges[j].target # result.relationships[k].callee
        /\ result.visualization.summary.total_nodes = result.total_functions
        /\ result.visualization.summary.total_edges = Len(VizEdges)
        /\ result.visualization.summary.total_edges
              + result.visualization.summary.unresolved_calls = result.total_calls

\* a graph was returned for two registry nodes, a resolved relationship and
\* an unresolved one
C20_Witness ==
    /\ pc = "returned"
    /\ Len(functions) > 1
    /\ ResolvedPositions # {}
    /\ ResolvedPositions # 1..Len(result.relationships)
    /\ result.visualization.summary.unresolved_calls > 0


\* the file entries with this extension (lower-cased) are each routed to the
\* analyzer of this language
RoutedTo(ext, lang) ==
    \A k \in 1..Len(disp_tree) :
        Lower(disp_tree[k].extension) = ext =>
            \E j \in 1..Len(disp_routed) :
                disp_routed[j].path = disp_tree[k].path /\ disp_routed[j].analyzer = lang

\* C21: for every language that has an analyzer some file extension is
\* mapped to it, and once the files are routed every file entry with that
\* extension has been routed to the analyzer of the language.
C21_EveryAnalyzerReachable ==
    disp_pc = "routed" =>
        \A lang \in AnalyzerLanguages :
            \E ext \in DOMAIN CODE_EXTENSIONS :
                CODE_EXTENSIONS[ext] = lang /\ RoutedTo(ext, lang)

\* the same for the languages with an analyzer other than dml
C21_ReachableExceptDml ==
    disp_pc = "routed" =>
        \A lang \in AnalyzerLanguages \ {"dml"} :
            \E ext \in DOMAIN CODE_EXTENSIONS :
                CODE_EXTENSIONS[ext] = lang /\ RoutedTo(ext, lang)

\* no file entry is ever routed to the dml analyzer
C21_DmlNeverRouted ==
    \A j \in 1..Len(disp_routed) : disp_routed[j].analyzer # "dml"


\* the number of places of a name where "github_copilot/" begins
PrefixCount(name) ==
    Cardinality({k \in 1..Len(name) :
                    k + 1 <= Len(name) /\ SubSeq(name, k, k + 1) = COPILOT_PREFIX})

\* what get_model(m) is said to return
ExpectedModel(m) == IF StartsWith(m, COPILOT_PREFIX) THEN m ELSE COPILOT_PREFIX \o m

\* C22: get_model(m) is m when m starts with "github_copilot/" and
\* "github_copilot/" + m otherwise, the result carries the prefix exactly
\* once, and get_model(get_model(m)) = get_model(m).
C22_PrefixExactlyOnce ==
    /\ gm_pc \in {"called", "called_again"} =>
          /\ gm_result = ExpectedModel(gm_model)
          /\ PrefixCount(gm_result) = 1
    /\ gm_pc = "called_again" => gm_again = gm_result

\* C22 (amended): get_model(m) is m when m starts with "github_copilot/"
\* and "github_copilot/" + m otherwise; the result starts with the prefix,
\* holds it once more than m when it was added and as often as m when it
\* was not, and get_model(get_model(m)) = get_model(m).
C22_PrefixedAndIdempotent ==
    /\ gm_pc \in {"called", "called_again"} =>
          /\ gm_result = ExpectedModel(gm_model)
          /\ StartsWith(gm_result, COPILOT_PREFIX)
          /\ PrefixCount(gm_result) =
                PrefixCount(gm_model) + (IF StartsWith(gm_model, COPILOT_PREFIX) THEN 0 ELSE 1)
    /\ gm_pc = "called_again" => gm_again = gm_result

\* get_model was applied twice to a name that holds the prefix, but not at
\* its start
C22_Witness ==
    /\ gm_pc = "called_again"
    /\ ~StartsWith(gm_model, COPILOT_PREFIX)
    /\ PrefixCount(gm_model) = 1
    /\ gm_result # gm_model
    /\ gm_again = gm_result


\* an undo_edit call that follows a successful edit of the same path
UndoFollowsEdit ==
    /\ ed_call.command = "undo_edit"
    /\ ed_prev_call.command \in {"create", "str_replace", "insert"}
    /\ ed_prev_call.ok
    /\ ed_prev_call.path = ed_call.path

\* C23: after a successful create, str_replace or insert, a following
\* undo_edit on the same path restores the content the file had before that
\* edit.
C23_UndoRestoresContentBeforeEdit ==
    UndoFollowsEdit => ed_files[ed_call.path] = ed_prev_call.before

\* C23 (what the code does): no edit is ever recorded in the registry, so
\* undo_edit finds no history and leaves the file as the edit left it.
C23_UndoFindsNoHistory ==
    /\ ed_registry = <<>>
    /\ ed_call.command = "undo_edit" =>
          /\ ~ed_call.ok
          /\ ed_files # <<>> => ed_files[ed_call.path] = ed_call.before


\* the full paths of the modules of a tree
RECURSIVE ModulePaths(_, _)
ModulePaths(tree, path) ==
    UNION {{Append(path, tree[k].key)}
              \cup ModulePaths(tree[k].val.children, Append(path, tree[k].key)) :
           k \in 1..Len(tree)}

ProperPrefix(p, q) == Len(p) < Len(q) /\ SubSeq(q, 1, Len(p)) = p

\* C24: get_processing_order returns every module of the module tree
\* exactly once, identified by its full path, and every module after all of
\* its descendants.
C24_EveryModuleOnceLeavesFirst ==
    doc_pc # "start" =>
        /\ {processing_order[k].path : k \in 1..Len(processing_order)}
              = ModulePaths(first_module_tree, <<>>)
        /\ \A i, j \in 1..Len(processing_order) :
              /\ processing_order[i].path = processing_order[j].path => i = j
              /\ ProperPrefix(processing_order[i].path, processing_order[j].path) => j < i
        /\ \A k \in 1..Len(processing_order) :
              processing_order[k].name = Last(processing_order[k].path)

\* the order of a tree of three modules, one of them inside another
C24_Witness ==
    /\ doc_pc # "start"
    /\ Len(processing_order) = 3
    /\ \E i, j \in 1..3 :
          ProperPrefix(processing_order[i].path, processing_order[j].path)


\* the modules attempted so far are the first entries of processing_order,
\* in order, and none was processed twice
AttemptedInOrder ==
    /\ Len(doc_attempts) <= Len(processing_order)
    /\ \A k \in 1..Len(doc_attempts) : doc_attempts[k].path = processing_order[k].path
    /\ \A i, j \in 1..Len(doc_attempts) :
          /\ doc_attempts[i].outcome = "processed"
          /\ doc_attempts[j].outcome = "processed"
          /\ doc_attempts[i].path = doc_attempts[j].path
          => i = j

\* the repository overview is reached only after every module was attempted
OverviewAfterLastModule ==
    (doc_pc \in {"done", "overview_raised"} /\ Len(module_tree) > 0)
        => Len(doc_attempts) = Len(processing_order)

\* C25: in generate_module_documentation a failure on one module never
\* stops the run: every later module is still attempted, each module is
\* processed at most once, and the repository overview is generated only
\* after the last module has been attempted.
C25_FailureNeverStopsRun ==
    /\ doc_pc # "loop_raised"
    /\ AttemptedInOrder
    /\ OverviewAfterLastModule

\* C25 (what the code does): the loop is left by an exception only when the
\* lookup of the first module of the order fails, module_key being unbound
\* in the handler; every other failure is passed over.
C25_StopsOnlyWhenFirstLookupFails ==
    /\ doc_pc = "loop_raised" =>
          /\ doc_idx = 1
          /\ module_key = Unbound
          /\ LookupModule(module_tree, processing_order[1].path).raised
    /\ AttemptedInOrder
    /\ OverviewAfterLastModule


\* C26: after the dependency parser has built the registry, every element of
\* every node's depends_on is the id of a registry node, and the nodes that
\* hold dependencies are the registry's own nodes, each under its id.
C26_DependsOnInsideRegistry ==
    pc = "built" =>
        \A k \in 1..Len(components) :
            /\ components[k].val.id = components[k].key
            /\ components[k].val.depends_on \subseteq DictKeys(components)

\* a registry with a dependency, built from a result in which a registered
\* caller also has a relationship whose callee is no registry id
C26_Witness ==
    /\ pc = "built"
    /\ \E k \in 1..Len(components) : components[k].val.depends_on # {}
    /\ \E j \in 1..Len(result.relationships) :
          /\ result.relationships[j].caller \in DictKeys(components)
          /\ result.relationships[j].callee \notin DictKeys(components)


JobReturned(job_id) == job_id \in DOMAIN job_status /\ job_status[job_id].returns > 0

\* whenever _process_job has returned for a job, the job is completed or
\* failed and has its completion time
ReturnedJobsFinished ==
    \A job_id \in DOMAIN job_status :
        job_status[job_id].returns > 0 =>
            /\ job_status[job_id].status \in {"completed", "failed"}
            /\ job_status[job_id].completed_at # None

\* C27: every job added with add_job while the worker is running and not
\* stopped is eventually dequeued and processed, and whenever _process_job
\* returns for a known job its status is 'completed' or 'failed' with
\* completed_at set.
C27_QueuedJobsProcessed ==
    /\ []ReturnedJobsFinished
    /\ \A job_id \in JobIds :
          (running /\ job_id \in Range(processing_queue))
              ~> (~running \/ JobReturned(job_id))

\* two jobs were processed by a worker that was never stopped, one failing
C27_Witness ==
    /\ running
    /\ ~ever_stopped
    /\ Len(job_status) = 2
    /\ JobReturned(1) /\ JobReturned(2)
    /\ \E job_id \in 1..2 : job_status[job_id].status = "failed"

\* C28: for any interleaving of start() and stop() on one BackgroundWorker at
\* most one worker-loop thread consumes the queue: start() while running is
\* a no-op and start() after stop() never leaves two loops alive.
C28_AtMostOneLoop == Cardinality(LiveLoops) <= 1

\* C28 (what the code does): there is at most one loop until stop() is
\* called for the first time, and a start() while running creates none.
C28_OneLoopUntilStopped ==
    /\ ~ever_stopped => Cardinality(LiveLoops) <= 1
    /\ running => LiveLoops # {}


DepsRestored ==
    /\ sub_last.exit.path_to_current_module = sub_last.entry.path_to_current_module
    /\ sub_last.exit.current_depth = sub_last.entry.current_depth
    /\ sub_last.exit.current_module_name = sub_last.entry.current_module_name

\* C29: whenever generate_sub_module_documentation finishes, by returning or
\* because a sub-agent raises, deps.path_to_current_module,
\* deps.current_depth and deps.current_module_name have the values they had
\* on entry.
C29_DepsRestoredOnEveryExit == sub_last.how # "none" => DepsRestored

\* C29 (what the code does): the three fields are restored when the call
\* returns; when a sub-agent raises they keep the sub-module's values.
C29_DepsRestoredOnReturn ==
    /\ sub_last.how = "returned" => DepsRestored
    /\ sub_last.how = "raised" =>
          /\ sub_last.exit.current_depth = sub_last.entry.current_depth + 1
          /\ Len(sub_last.exit.path_to_current_module)
                = Len(sub_last.entry.path_to_current_module) + 1


RoundTripDone == cfg_pc \in {"from_dict", "loaded"}

\* C30: Configuration.from_dict(c.to_dict()) equals c in every field, so
\* that ConfigManager.save followed by load gives back the configuration.
C30_RoundTripEveryField == RoundTripDone => loaded_config = config

\* C30 (what the code does): every field but fallback_model comes back, an
\* instruction that is empty comes back as None, and fallback_model comes
\* back as the default.
C30_RoundTripButFallbackModel ==
    RoundTripDone =>
        /\ loaded_config.base_url = config.base_url
        /\ loaded_config.main_model = config.main_model
        /\ loaded_config.cluster_model = config.cluster_model
        /\ loaded_config.default_output = config.default_output
        /\ loaded_config.max_tokens = config.max_tokens
        /\ loaded_config.max_token_per_module = config.max_token_per_module
        /\ loaded_config.max_token_per_leaf_module = config.max_token_per_leaf_module
        /\ loaded_config.fallback_model = "glm-4p5"
        /\ \A k \in InstructionKeys :
              loaded_config.agent_instructions[k]
                  = IF Truthy(config.agent_instructions[k])
                    THEN config.agent_instructions[k]
                    ELSE PyNone

\* C30: a configuration whose fallback model is the default and whose
\* instructions hold no empty list or empty string does come back whole.
C30_RoundTripOfDefaultFallback ==
    (/\ RoundTripDone
     /\ config.fallback_model = "glm-4p5"
     /\ \A k \in InstructionKeys :
           Truthy(config.agent_instructions[k]) \/ config.agent_instructions[k] = PyNone)
        => loaded_config = config

====
